---- MODULE Spec2Model ----
(***************************************************************************)
(* TerraFract: the numerical terrain engine.                               *)
(*   heightmap_generators.py  diamond-square / FBM generators, the         *)
(*                            generate_heightmap pipeline                  *)
(*   post_processing.py       thermal / hydraulic erosion                  *)
(*   biome_texture.py         biome classification                         *)
(*                                                                         *)
(* Floats are fixed-point numbers: the integer k stands for k / Unit, and   *)
(* every operation rounds its result down to a multiple of 1 / Unit, as    *)
(* float arithmetic rounds to a representable float; NaN is the IEEE NaN   *)
(* that 0/0 produces.  A field is a record [n, m, v] with v a function on  *)
(* (0..n-1) \X (0..m-1).                                                   *)
(***************************************************************************)
EXTENDS Integers, Sequences, FiniteSets, TLC

VARIABLES
    rng,     \* numpy's global RandomState (np.random)
    op,      \* the operation that ran last
    args,    \* its arguments
    ret,     \* its outcome: [status |-> "ok" | "raised", ...]
    probe,   \* determinism harness: the argument tuple being watched
    seen     \* determinism harness: the first field returned for probe

vars == <<rng, op, args, ret, probe, seen>>

----------------------------------------------------------------------------
(* Bounds of the model *)

MaxReq == 260          \* largest grid size requested of the size rounding
RngMod == 8            \* number of states of the model of np.random
MaxIters == 2          \* most passes asked of an erosion simulator
MaxCols == 1           \* widest 1 x w field handed to assign_biomes (beside the 1 x 5 example)
MaxSize == 4           \* largest size asked of generate_heightmap
MaxOctaves == 2        \* most octaves asked of the FBM generator

----------------------------------------------------------------------------
(* Fixed-point arithmetic *)

\* An optional argument: <<>> when it is not given (None), <<x>> when it is x.
None == <<>>
Some(x) == <<x>>

RECURSIVE Pow2(_)
Pow2(k) == IF k = 0 THEN 1 ELSE 2 * Pow2(k - 1)

\* One: the integer k stands for the float k / Unit.
Unit == 10 * 1000
\* The IEEE NaN, a value outside the range any computation reaches.
NaN == -(Unit * Unit)
IsNaN(x) == x = NaN

\* The float n / d.
Rat(n, d) == IF d = 0 THEN NaN ELSE (n * Unit) \div d

R0 == 0
R1 == Unit
RHalf == Unit \div 2

RAdd(a, b) == IF IsNaN(a) \/ IsNaN(b) THEN NaN ELSE a + b
RSub(a, b) == IF IsNaN(a) \/ IsNaN(b) THEN NaN ELSE a - b
\* floor(a * b / Unit), computed by parts so that a * b need not fit in 32 bits
RMul(a, b) ==
    IF IsNaN(a) \/ IsNaN(b) THEN NaN
    ELSE (a \div Unit) * (b \div Unit) * Unit + (a \div Unit) * (b % Unit)
         + (a % Unit) * (b \div Unit) + ((a % Unit) * (b % Unit)) \div Unit
\* IEEE division: 0/0 is NaN (the only division by zero the engine can meet:
\* a field divided by its maximum after its minimum was subtracted).
RDiv(a, b) ==
    IF IsNaN(a) \/ IsNaN(b) \/ b = 0 THEN NaN ELSE (a * Unit) \div b
\* IEEE comparisons: every comparison with NaN is false.
RLt(a, b) == ~IsNaN(a) /\ ~IsNaN(b) /\ a < b
RLe(a, b) == ~IsNaN(a) /\ ~IsNaN(b) /\ a <= b
RGt(a, b) == RLt(b, a)

----------------------------------------------------------------------------
(* heightmap_generators.py: size rounding of the diamond-square generator *)

\* Python's a & b on ints (two's complement: -1 is all ones).
RECURSIVE BitAnd(_, _)
BitAnd(a, b) ==
    IF a = 0 \/ b = 0 THEN 0
    ELSE IF a = -1 THEN b
    ELSE IF b = -1 THEN a
    ELSE (a % 2) * (b % 2) + 2 * BitAnd(a \div 2, b \div 2)

\* int(np.ceil(np.log2(m))) for m >= 1: the least k with 2^k >= m.
RECURSIVE CeilLog2From(_, _)
CeilLog2From(m, k) == IF Pow2(k) >= m THEN k ELSE CeilLog2From(m, k + 1)
CeilLog2(m) == CeilLog2From(m, 0)

\* Mutant: the exponent rounded down instead of up.
Mut_next_pow2_plus1(n) ==
    LET k == CeilLog2(n - 1) IN
    IF Pow2(k) = n - 1 THEN n ELSE Pow2(k - 1) + 1
next_pow2_plus1(n) == Pow2(CeilLog2(n - 1)) + 1

\* DiamondSquareGenerator.generate, lines 39-44: the side of the grid it allocates.
DSGridSide(size) ==
    IF BitAnd(size - 1, size - 2) # 0 THEN next_pow2_plus1(size) ELSE size

----------------------------------------------------------------------------
(* The size-rounding specification: DiamondSquareGenerator(size=s).generate()
   up to the allocation of its grid, whose shape is the shape returned. *)

NoArgs == [kind |-> "none"]
NoRet == [status |-> "none"]
Pending == [status |-> "pending"]

\* The caller asks for one of the sizes 1..MaxReq.
InitSize ==
    /\ rng = 0
    /\ op = "ds_allocate"
    /\ args \in [kind : {"size"}, size : 1..MaxReq]
    /\ ret = Pending
    /\ probe = NoArgs
    /\ seen = NoRet

DSAllocate ==
    /\ op = "ds_allocate"
    /\ ret = Pending
    /\ ret' = [status |-> "ok",
               shape |-> <<DSGridSide(args.size), DSGridSide(args.size)>>]
    /\ UNCHANGED <<rng, op, args, probe, seen>>

NextSize == DSAllocate

SpecSize == InitSize /\ [][NextSize]_vars

\* m = 2^k for some k >= 0
RECURSIVE IsPow2(_)
IsPow2(m) == m = 1 \/ (m > 1 /\ m % 2 = 0 /\ IsPow2(m \div 2))
IsPow2Plus1(n) == IsPow2(n - 1)

\* C1: for every requested size s >= 2 the diamond-square grid is square with
\* side n = 2^k + 1, n >= s, and no smaller side of that form is >= s.
C1_SizeRounding ==
    (op = "ds_allocate" /\ ret.status = "ok" /\ args.size >= 2) =>
        LET n == ret.shape[1] IN
        /\ ret.shape = <<n, n>>
        /\ IsPow2Plus1(n)
        /\ n >= args.size
        /\ \A m \in args.size..(n - 1) : ~IsPow2Plus1(m)

\* C1 witness: a request of 200 was rounded up to 257.
C1_Witness ==
    /\ op = "ds_allocate"
    /\ ret.status = "ok"
    /\ args.size = 200
    /\ ret.shape = <<257, 257>>

----------------------------------------------------------------------------
(* Fields *)

Cells(n, m) == (0..(n - 1)) \X (0..(m - 1))
Field(n, m, v) == [n |-> n, m |-> m, v |-> v]
ConstField(n, m, x) == Field(n, m, [p \in Cells(n, m) |-> x])
Shape(Z) == <<Z.n, Z.m>>
\* a[c] = x on the grid a
SetCell(a, c, x) == (c :> x) @@ a
\* A 1 x w field from a sequence of values.
RowField(sq) == Field(1, Len(sq), [p \in Cells(1, Len(sq)) |-> sq[p[2] + 1]])

Pct(k) == Rat(k, 100)

----------------------------------------------------------------------------
(* biome_texture.py: assign_biomes *)

WATER == 0
SAND == 1
GRASS == 2
FOREST == 3
ROCK == 4
SNOW == 5

\* Mutant: the category written is one code too high.
Mut_SetMasked(b, mask, value) ==
    [p \in DOMAIN b |-> IF mask[p] THEN value + 1 ELSE b[p]]
\* biomes[mask] = value
SetMasked(b, mask, value) == [p \in DOMAIN b |-> IF mask[p] THEN value ELSE b[p]]

WaterMask(Z, water) == [p \in DOMAIN Z.v |-> RLe(Z.v[p], water)]
SandMask(Z, water, sand) ==
    [p \in DOMAIN Z.v |-> RGt(Z.v[p], water) /\ RLe(Z.v[p], sand)]
LowlandMask(Z, sand, grass) ==
    [p \in DOMAIN Z.v |-> RGt(Z.v[p], sand) /\ RLe(Z.v[p], grass)]
GrassMask(lowland, slope, wetness) ==
    [p \in DOMAIN lowland |->
        lowland[p] /\ RLt(slope.v[p], Rat(1, 2)) /\ RLt(wetness.v[p], Rat(3, 5))]
\* Mutant: the high forest band ends at forest_thresh instead of rock_thresh.
Mut_ForestHighMask(Z, grass, forest, rock) ==
    [p \in DOMAIN Z.v |-> RGt(Z.v[p], grass) /\ RLe(Z.v[p], forest)]
ForestHighMask(Z, grass, forest, rock) ==
    [p \in DOMAIN Z.v |-> RGt(Z.v[p], grass) /\ RLe(Z.v[p], rock)]
\* Mutant: rock starts above forest_thresh instead of rock_thresh.
Mut_RockMask(Z, forest, rock) == [p \in DOMAIN Z.v |-> RGt(Z.v[p], forest)]
RockMask(Z, forest, rock) == [p \in DOMAIN Z.v |-> RGt(Z.v[p], rock)]

\* The masks are applied one after the other, a later one overwriting an earlier.
assign_biomes(Z, slope, wetness, th) ==
    LET b0 == [p \in Cells(Z.n, Z.m) |-> 0]
        b1 == SetMasked(b0, WaterMask(Z, th.water), WATER)
        b2 == SetMasked(b1, SandMask(Z, th.water, th.sand), SAND)
        lowland == LowlandMask(Z, th.sand, th.grass)
        grass_mask == GrassMask(lowland, slope, wetness)
        forest_lowland == [p \in DOMAIN lowland |-> lowland[p] /\ ~grass_mask[p]]
        b3 == SetMasked(b2, grass_mask, GRASS)
        b4 == SetMasked(b3, forest_lowland, FOREST)
        b5 == SetMasked(b4, ForestHighMask(Z, th.grass, th.forest, th.rock), FOREST)
        b6 == SetMasked(b5, RockMask(Z, th.forest, th.rock), ROCK)
    IN  Field(Z.n, Z.m, b6)

\* numpy broadcasting of one axis of two 2-D arrays; 0 when the lengths are
\* incompatible (the model has no empty axis).
BroadcastDim(a, b) ==
    IF a = b THEN a ELSE IF a = 1 THEN b ELSE IF b = 1 THEN a ELSE 0
BroadcastShape(s, t) ==
    IF 0 \in {s[1], s[2], t[1], t[2]} THEN <<0, 0>>
    ELSE IF 0 \in {BroadcastDim(s[1], t[1]), BroadcastDim(s[2], t[2])} THEN <<0, 0>>
    ELSE <<BroadcastDim(s[1], t[1]), BroadcastDim(s[2], t[2])>>
\* The array F seen through a broadcast to n x m: an axis of length 1 is repeated.
BroadcastTo(F, n, m) ==
    Field(n, m, [p \in Cells(n, m) |->
                    F.v[<<IF F.n = 1 THEN 0 ELSE p[1], IF F.m = 1 THEN 0 ELSE p[2]>>]])

\* A call of assign_biomes on arrays of any 2-D shapes.  The function checks no
\* shape: `lowland & (slope < 0.5) & (wetness < 0.6)` broadcasts (numpy raises
\* ValueError when it cannot), and `biomes[grass_mask] = 2` raises IndexError
\* when the broadcast mask is not of the shape of Z.
AssignBiomesCall(Z, slope, wetness, th) ==
    LET mask_shape ==
            BroadcastShape(BroadcastShape(Shape(Z), Shape(slope)), Shape(wetness))
    IN  IF mask_shape = <<0, 0>>
        THEN [status |-> "raised", error |-> "ValueError"]
        ELSE IF mask_shape # Shape(Z)
        THEN [status |-> "raised", error |-> "IndexError"]
        ELSE [status |-> "ok",
              biomes |-> assign_biomes(Z, BroadcastTo(slope, Z.n, Z.m),
                                       BroadcastTo(wetness, Z.n, Z.m), th)]

DefaultThresholds ==
    [water |-> Pct(20), sand |-> Pct(30), grass |-> Pct(60),
     forest |-> Pct(80), rock |-> Pct(90)]

----------------------------------------------------------------------------
(* The classification specification: calls of assign_biomes *)

HeightVals == {Pct(k) : k \in {10, 20, 25, 30, 50, 60, 85, 90, 95}}
SlopeVals == {Pct(0), Pct(50)}
WetVals == {Pct(0), Pct(60)}
ThreshVals == {Pct(20), Pct(30), Pct(60), Pct(90)}

RECURSIVE SeqsOf(_, _)
SeqsOf(S, w) ==
    IF w = 0 THEN {<<>>} ELSE {Append(sq, x) : sq \in SeqsOf(S, w - 1), x \in S}

RowFields(S) == {RowField(sq) : sq \in UNION {SeqsOf(S, w) : w \in 1..MaxCols}}

ExampleZ == RowField(<<Pct(10), Pct(25), Pct(50), Pct(85), Pct(95)>>)

ThresholdSets ==
    [water : ThreshVals, sand : ThreshVals, grass : ThreshVals,
     forest : {Pct(80)}, rock : ThreshVals]

Monotone(th) ==
    RLe(th.water, th.sand) /\ RLe(th.sand, th.grass) /\ RLe(th.grass, th.rock)

BiomeInputs ==
    UNION {
        [kind : {"biomes"}, Z : {Z}, th : ThresholdSets,
         slope : {s \in RowFields(SlopeVals) : Shape(s) = Shape(Z)},
         wetness : {w \in RowFields(WetVals) : Shape(w) = Shape(Z)}]
        : Z \in RowFields(HeightVals) }
    \cup
    { [kind |-> "biomes", Z |-> ExampleZ, th |-> DefaultThresholds,
       slope |-> ConstField(1, 5, R0), wetness |-> ConstField(1, 5, R0)] }

InitBiome ==
    /\ rng = 0
    /\ op = "assign_biomes"
    /\ args \in BiomeInputs
    /\ ret = Pending
    /\ probe = NoArgs
    /\ seen = NoRet

\* assign_biomes has no raise statement of its own: a call returns a biome map
\* unless numpy rejects the shapes.
AssignBiomes ==
    /\ op = "assign_biomes"
    /\ ret = Pending
    /\ ret' = AssignBiomesCall(args.Z, args.slope, args.wetness, args.th)
    /\ UNCHANGED <<rng, op, args, probe, seen>>

NextBiome == AssignBiomes

SpecBiome == InitBiome /\ [][NextBiome]_vars

Returned(name) == op = name /\ ret.status # "pending"

\* The ordered decision chain of the classification.
Chain(z, s, w, th) ==
    IF RLe(z, th.water) THEN WATER
    ELSE IF RLe(z, th.sand) THEN SAND
    ELSE IF RLe(z, th.grass)
         THEN (IF RLt(s, Pct(50)) /\ RLt(w, Pct(60)) THEN GRASS ELSE FOREST)
    ELSE IF RLe(z, th.rock) THEN FOREST
    ELSE ROCK

\* C8 (as claimed): a call with thresholds that are not non-decreasing is rejected
\* and returns no biome map.
C8_NonMonotoneRejected ==
    (Returned("assign_biomes") /\ ~Monotone(args.th)) => ret.status = "raised"

\* C9: with non-decreasing thresholds every cell gets the category of the
\* ordered decision chain.
C9_DecisionChain ==
    (Returned("assign_biomes") /\ Monotone(args.th)) =>
        /\ ret.status = "ok"
        /\ Shape(ret.biomes) = Shape(args.Z)
        /\ \A p \in DOMAIN args.Z.v :
               ret.biomes.v[p] =
                   Chain(args.Z.v[p], args.slope.v[p], args.wetness.v[p], args.th)

\* C9 witness: a lowland cell that is too wet for grass was classified forest
\* under non-decreasing, non-default thresholds.
C9_Witness ==
    /\ Returned("assign_biomes")
    /\ Monotone(args.th)
    /\ args.th # DefaultThresholds
    /\ \E p \in DOMAIN args.Z.v :
           /\ RGt(args.Z.v[p], args.th.sand)
           /\ RLe(args.Z.v[p], args.th.grass)
           /\ args.wetness.v[p] = Pct(60)
           /\ ret.biomes.v[p] = FOREST

IsExampleCall ==
    /\ Returned("assign_biomes")
    /\ args.Z = ExampleZ
    /\ args.slope = ConstField(1, 5, R0)
    /\ args.wetness = ConstField(1, 5, R0)
    /\ args.th = DefaultThresholds

\* C10 (as claimed): the example vector is classified water, sand, grass, rock, rock.
C10_ExampleAsClaimed ==
    IsExampleCall =>
        ret.biomes = RowField(<<WATER, SAND, GRASS, ROCK, ROCK>>)

\* C10 (amended): the example vector [0.1, 0.25, 0.5, 0.85, 0.95] with zero slope
\* and wetness and default thresholds is classified water, sand, grass, forest, rock.
C10_ExampleAmended ==
    IsExampleCall =>
        ret.biomes = RowField(<<WATER, SAND, GRASS, FOREST, ROCK>>)

\* C10 witness: the example call was made and returned a 1 x 5 biome map.
C10_Witness ==
    IsExampleCall /\ ret.status = "ok" /\ Shape(ret.biomes) = <<1, 5>>

\* C11: under the default thresholds no cell is ever classified snow; every cell
\* of the returned map is one of water, sand, grass, forest, rock.
C11_SnowNeverAssigned ==
    (Returned("assign_biomes") /\ args.th = DefaultThresholds) =>
        /\ ret.status = "ok"
        /\ \A p \in DOMAIN ret.biomes.v :
               /\ ret.biomes.v[p] # SNOW
               /\ ret.biomes.v[p] \in {WATER, SAND, GRASS, FOREST, ROCK}

\* C11 witness: a default-threshold call on a cell above the rock threshold
\* returned rock, the highest category written.
C11_Witness ==
    /\ Returned("assign_biomes")
    /\ args.th = DefaultThresholds
    /\ \E p \in DOMAIN args.Z.v :
           RGt(args.Z.v[p], Pct(90)) /\ ret.biomes.v[p] = ROCK

----------------------------------------------------------------------------
(* The shape specification: calls of assign_biomes on grids of unequal shapes *)

MaxSide == 2
GridShapes == (1..MaxSide) \X (1..MaxSide)

ShapeInputs ==
    UNION {
        [kind : {"biomes"}, th : {DefaultThresholds},
         Z : {ConstField(zs[1], zs[2], z) : z \in {Pct(50), Pct(95)}},
         slope : {ConstField(ss[1], ss[2], x) : x \in SlopeVals},
         wetness : {ConstField(ws[1], ws[2], x) : x \in WetVals}]
        : zs \in GridShapes, ss \in GridShapes \cup {<<1, 3>>},
          ws \in GridShapes \cup {<<1, 3>>} }

InitShapes ==
    /\ rng = 0
    /\ op = "assign_biomes"
    /\ args \in ShapeInputs
    /\ ret = Pending
    /\ probe = NoArgs
    /\ seen = NoRet

SpecShapes == InitShapes /\ [][NextBiome]_vars

ShapesDiffer ==
    Shape(args.slope) # Shape(args.Z) \/ Shape(args.wetness) # Shape(args.Z)

\* C18 (as claimed): assign_biomes never returns a biome map when the shapes of
\* the height, slope and wetness grids are not all equal, broadcastable shapes
\* included.
C18_ShapeMismatchRejected ==
    (Returned("assign_biomes") /\ ShapesDiffer) => ret.status = "raised"

----------------------------------------------------------------------------
(* post_processing.py: normalization and the erosion cores *)

FVals(Z) == {Z.v[p] : p \in DOMAIN Z.v}
\* np.min / np.max: NaN as soon as one cell is NaN.
FMin(Z) ==
    IF \E x \in FVals(Z) : IsNaN(x) THEN NaN
    ELSE CHOOSE x \in FVals(Z) : \A y \in FVals(Z) : RLe(x, y)
FMax(Z) ==
    IF \E x \in FVals(Z) : IsNaN(x) THEN NaN
    ELSE CHOOSE x \in FVals(Z) : \A y \in FVals(Z) : RLe(y, x)
FSubScalar(Z, x) == [Z EXCEPT !.v = [p \in DOMAIN Z.v |-> RSub(Z.v[p], x)]]
FDivScalar(Z, x) == [Z EXCEPT !.v = [p \in DOMAIN Z.v |-> RDiv(Z.v[p], x)]]

\* Mutant: the division without its zero-range guard.
Mut_NormalizeGuarded(Z) ==
    LET A == FSubScalar(Z, FMin(Z)) IN FDivScalar(A, FMax(A))
\* Zn -= Zn.min(); if Zn.max() > 0: Zn /= Zn.max()
NormalizeGuarded(Z) ==
    LET A == FSubScalar(Z, FMin(Z))
    IN  IF RGt(FMax(A), R0) THEN FDivScalar(A, FMax(A)) ELSE A

Dirs == <<<<1, 0>>, <<-1, 0>>, <<0, 1>>, <<0, -1>>>>
Step(c, d) == <<c[1] + Dirs[d][1], c[2] + Dirs[d][2]>>
Back(c, d) == <<c[1] - Dirs[d][1], c[2] - Dirs[d][2]>>
Sum4(f) == RAdd(RAdd(f[1], f[2]), RAdd(f[3], f[4]))

\* range(1, n-1) x range(1, m-1)
Interior(Z) ==
    {p \in DOMAIN Z.v :
        p[1] >= 1 /\ p[1] <= Z.n - 2 /\ p[2] >= 1 /\ p[2] <= Z.m - 2}
\* prange(1, n-1): one worker per row
InteriorRows(Z) == 1..(Z.n - 2)

\* _thermal_core, lines 26-29: what cell s hands to its neighbour in direction d
\* in one pass, read from the heights Z as they stood when the pass began.
Transfer(Z, s, d, talus) ==
    LET slope == RSub(Z.v[s], Z.v[Step(s, d)])
    IN  IF RGt(slope, talus) THEN RMul(RHalf, RSub(slope, talus)) ELSE R0

\* _thermal_core, lines 30-31: the sum of the updates the worker of row r makes
\* to delta[c] in one pass.
RowDelta(Z, r, c, talus) ==
    LET outflow == IF c[1] = r /\ c \in Interior(Z)
                   THEN Sum4([d \in 1..4 |-> Transfer(Z, c, d, talus)])
                   ELSE R0
        inflow(d) == IF Back(c, d)[1] = r /\ Back(c, d) \in Interior(Z)
                     THEN Transfer(Z, Back(c, d), d, talus)
                     ELSE R0
    IN  RSub(Sum4([d \in 1..4 |-> inflow(d)]), outflow)

\* Whether the worker of row r updates delta[c] at all in this pass.
Writes(Z, r, c, talus) ==
    \/ /\ c[1] = r
       /\ c \in Interior(Z)
       /\ \E d \in 1..4 : Transfer(Z, c, d, talus) # R0
    \/ \E d \in 1..4 :
           /\ Back(c, d)[1] = r
           /\ Back(c, d) \in Interior(Z)
           /\ Transfer(Z, Back(c, d), d, talus) # R0

\* delta[c] += tr is a read followed by a write, and delta is shared by the prange
\* workers (lines 20-21, 30-31).  <<r, c>> names a lost update: a second worker
\* read delta[c] before the worker of row r updated it and wrote it back after,
\* so what row r added to delta[c] is overwritten.
LostUpdates(Z, talus) ==
    {l \in InteriorRows(Z) \X DOMAIN Z.v :
        /\ Writes(Z, l[1], l[2], talus)
        /\ \E r2 \in InteriorRows(Z) \ {l[1]} : Writes(Z, r2, l[2], talus)}

Delta(Z, talus, lost) ==
    [c \in DOMAIN Z.v |->
        LET part(r) == IF r \in InteriorRows(Z) /\ <<r, c>> \notin lost
                       THEN RowDelta(Z, r, c, talus)
                       ELSE R0
        IN  RAdd(RAdd(part(c[1] - 1), part(c[1])), part(c[1] + 1))]

\* Z_out += delta
ApplyDelta(Z, delta) == [Z EXCEPT !.v = [c \in DOMAIN Z.v |-> RAdd(Z.v[c], delta[c])]]

\* The outcomes of one pass (lines 20-32): the race-free one, and one per lost update.
ThermalPass(Z, talus) ==
    {ApplyDelta(Z, Delta(Z, talus, lost)) :
        lost \in {{}} \cup {{l} : l \in LostUpdates(Z, talus)}}

\* Mutant: one pass too many.
RECURSIVE Mut_thermal_core(_, _, _)
Mut_thermal_core(Z, iterations, talus) ==
    IF iterations < 0 THEN {Z}
    ELSE UNION {Mut_thermal_core(Z2, iterations - 1, talus) : Z2 \in ThermalPass(Z, talus)}
\* _thermal_core: the set of fields it can return (range(iterations) is empty for
\* iterations <= 0).
RECURSIVE thermal_core(_, _, _)
thermal_core(Z, iterations, talus) ==
    IF iterations <= 0 THEN {Z}
    ELSE UNION {thermal_core(Z2, iterations - 1, talus) : Z2 \in ThermalPass(Z, talus)}

\* thermal_erosion: the set of fields it can return; it has no raising path.
thermal_erosion(Z, iterations, talus) ==
    {NormalizeGuarded(Zt) : Zt \in thermal_core(NormalizeGuarded(Z), iterations, talus)}

\* _hydro_core, lines 83-90: the flow of cell c to its lower neighbours, one
\* after the other, each flow taken from the water still in the cell.
RECURSIVE Distribute(_, _, _, _, _, _)
Distribute(st, c, lows, drop, total_drop, solubility) ==
    IF lows = <<>> THEN st
    ELSE LET t == Step(c, Head(lows))
             frac == RDiv(drop[Head(lows)], total_drop)
             flow == RMul(st.W[c], frac)
             dsed == RMul(solubility, flow)
             W1 == SetCell(st.W, c, RSub(st.W[c], flow))
             st2 == [Z |-> SetCell(st.Z, c, RSub(st.Z[c], dsed)),
                     W |-> SetCell(W1, t, RAdd(W1[t], flow)),
                     S |-> SetCell(st.S, t, RAdd(st.S[t], dsed))]
         IN  Distribute(st2, c, Tail(lows), drop, total_drop, solubility)

RECURSIVE SumOver(_, _)
SumOver(sq, f) == IF sq = <<>> THEN R0 ELSE RAdd(f[Head(sq)], SumOver(Tail(sq), f))

\* _hydro_core, lines 69-90: one cell of the scan, on the grids as they are now.
HydroCell(st, c, solubility) ==
    LET h == RAdd(st.Z[c], st.W[c])
        drop == [d \in 1..4 |-> RSub(h, RAdd(st.Z[Step(c, d)], st.W[Step(c, d)]))]
        lows == SelectSeq(<<1, 2, 3, 4>>, LAMBDA d : RGt(drop[d], R0))
        total_drop == SumOver(lows, drop)
    IN  IF RLe(total_drop, R0) THEN st
        ELSE Distribute(st, c, lows, drop, total_drop, solubility)

\* Lines 68-90: the cells of one row, for j in range(1, m-1), one after the other.
\* (Each cell is computed to a value, s, before the scan moves on.)
RECURSIVE HydroCells(_, _, _)
HydroCells(st, cells, solubility) ==
    IF cells = <<>> THEN st
    ELSE CHOOSE r \in {HydroCells(s, Tail(cells), solubility) :
                          s \in {HydroCell(st, Head(cells), solubility)}} : TRUE
HydroRow(st, i, m, solubility) ==
    HydroCells(st, [j \in 1..(m - 2) |-> <<i, j>>], solubility)

RECURSIVE HydroRows(_, _, _, _)
HydroRows(st, order, m, solubility) ==
    IF order = <<>> THEN st
    ELSE HydroRows(HydroRow(st, Head(order), m, solubility), Tail(order), m, solubility)

\* The orders in which the prange workers of rows 1..n-2 can run one after the
\* other: prange fixes no order among its iterations.
RowOrders(n) ==
    {o \in [1..(n - 2) -> 1..(n - 2)] : \A a, b \in 1..(n - 2) : a # b => o[a] # o[b]}

\* One pass (lines 66-90) with the rows run in the given order.
HydroPass(st, order, m, rain_amount, solubility) ==
    HydroRows([st EXCEPT !.W = [c \in DOMAIN st.W |-> RAdd(st.W[c], rain_amount)]],
              order, m, solubility)

RECURSIVE HydroIter(_, _, _, _, _, _)
HydroIter(st, n, m, iterations, rain_amount, solubility) ==
    IF iterations <= 0 THEN {st}
    ELSE UNION {HydroIter(HydroPass(st, o, m, rain_amount, solubility),
                          n, m, iterations - 1, rain_amount, solubility)
                : o \in RowOrders(n)}

\* _hydro_core: the set of height fields it can return.
hydro_core(Z, water, sediment, iterations, rain_amount, solubility) ==
    {[Z EXCEPT !.v = st.Z] :
        st \in HydroIter([Z |-> Z.v, W |-> water.v, S |-> sediment.v],
                         Z.n, Z.m, iterations, rain_amount, solubility)}

\* hydraulic_erosion: the set of fields it can return; it has no raising path.
hydraulic_erosion(Z, iterations, rain_amount, solubility) ==
    LET Zn == NormalizeGuarded(Z)
        zeros == ConstField(Z.n, Z.m, R0)
    IN  {NormalizeGuarded(Zh) :
            Zh \in hydro_core(Zn, zeros, zeros, iterations, rain_amount, solubility)}

----------------------------------------------------------------------------
(* heightmap_generators.py: the generators *)

\* np.random: the global RandomState, a deterministic sequence of states; seed(S)
\* puts it in a state fixed by S, rand() returns a value in [0,1) and advances it.
RngStates == 0..(RngMod - 1)
RngSeed(seed) == (3 * seed + 1) % RngMod
RngNext(r) == (5 * r + 3) % RngMod
RngValue(r) == Rat(r, RngMod)

\* HeightMapGenerator.__init__: if seed is not None: np.random.seed(seed)
GeneratorInit(r, seed) == IF seed # None THEN RngSeed(seed[1]) ELSE r

\* range(a, b, s) as a sequence
RECURSIVE RangeSeq(_, _, _)
RangeSeq(a, b, s) == IF a >= b THEN <<>> ELSE <<a>> \o RangeSeq(a + s, b, s)

\* Lines 60-61, 68: the cells the diamond step writes, in the order it writes them.
DiamondCells(n, step_size) ==
    LET xs == RangeSeq(0, n - 1, step_size)
        q == Len(xs)
    IN  [k \in 1..(q * q) |->
            <<xs[((k - 1) \div q) + 1] + step_size \div 2,
              xs[((k - 1) % q) + 1] + step_size \div 2>>]

\* Mutant: every row of the square step starts at column 0.
Mut_SquareCells(n, step_size) ==
    LET xs == RangeSeq(0, n, step_size \div 2)
        ys == RangeSeq(0, n, step_size)
        q == Len(ys)
    IN  [k \in 1..(Len(xs) * q) |-> <<xs[((k - 1) \div q) + 1], ys[((k - 1) % q) + 1]>>]

\* Lines 71-72: the cells the square step writes, in the order it writes them.
RECURSIVE SquareRows(_, _, _)
SquareRows(xs, n, step_size) ==
    IF xs = <<>> THEN <<>>
    ELSE LET x == Head(xs)
             ys == RangeSeq((x + step_size \div 2) % step_size, n, step_size)
         IN  [k \in DOMAIN ys |-> <<x, ys[k]>>] \o SquareRows(Tail(xs), n, step_size)
SquareCells(n, step_size) == SquareRows(RangeSeq(0, n, step_size \div 2), n, step_size)

\* Lines 62-67
DiamondAvg(grid, c, half) ==
    RMul(Rat(1, 4),
         RAdd(RAdd(grid[<<c[1] - half, c[2] - half>>], grid[<<c[1] + half, c[2] - half>>]),
              RAdd(grid[<<c[1] - half, c[2] + half>>], grid[<<c[1] + half, c[2] + half>>])))

\* Lines 73-82: np.mean of the neighbours at distance half that are in the grid
SquareAvg(grid, c, half, n) ==
    LET vals == (IF c[1] - half >= 0 THEN <<grid[<<c[1] - half, c[2]>>]>> ELSE <<>>)
             \o (IF c[1] + half < n THEN <<grid[<<c[1] + half, c[2]>>]>> ELSE <<>>)
             \o (IF c[2] - half >= 0 THEN <<grid[<<c[1], c[2] - half>>]>> ELSE <<>>)
             \o (IF c[2] + half < n THEN <<grid[<<c[1], c[2] + half>>]>> ELSE <<>>)
    IN  RDiv(SumOver(<<1, 2, 3, 4>> , [k \in 1..4 |-> IF k <= Len(vals) THEN vals[k] ELSE R0]),
             Rat(Len(vals), 1))

\* Lines 68 and 83: grid[c] = avg + (np.random.rand() - 0.5) * scale, cell after cell.
\* st = [grid, rng].
DSCell(st, c, diamond, half, n, scale) ==
    LET avg == IF diamond THEN DiamondAvg(st.grid, c, half)
               ELSE SquareAvg(st.grid, c, half, n)
        val == RAdd(avg, RMul(RSub(RngValue(st.rng), RHalf), scale))
    IN  [grid |-> SetCell(st.grid, c, val), rng |-> RngNext(st.rng)]
\* The cells of one step, one after the other (each cell is computed to a value,
\* s, before the loop moves on).
RECURSIVE DSFill(_, _, _, _, _, _)
DSFill(st, cells, diamond, half, n, scale) ==
    IF cells = <<>> THEN st
    ELSE CHOOSE r \in {DSFill(s, Tail(cells), diamond, half, n, scale) :
                          s \in {DSCell(st, Head(cells), diamond, half, n, scale)}} : TRUE

\* Lines 56-86: while step_size > 1
RECURSIVE DSLoop(_, _, _, _)
DSLoop(st, n, step_size, scale) ==
    IF step_size <= 1 THEN st
    ELSE LET half == step_size \div 2
             d == DSFill(st, DiamondCells(n, step_size), TRUE, half, n, scale)
             q == DSFill(d, SquareCells(n, step_size), FALSE, half, n, scale)
         IN  DSLoop(q, n, half, RMul(scale, RHalf))

\* Lines 46-51: the four corners, drawn in this order (for n = 1 they are one cell).
DSCorners(n, r) ==
    LET r1 == RngNext(r)
        r2 == RngNext(r1)
        r3 == RngNext(r2)
        g0 == [c \in Cells(n, n) |-> R0]
        g1 == SetCell(g0, <<0, 0>>, RngValue(r))
        g2 == SetCell(g1, <<0, n - 1>>, RngValue(r1))
        g3 == SetCell(g2, <<n - 1, 0>>, RngValue(r2))
        g4 == SetCell(g3, <<n - 1, n - 1>>, RngValue(r3))
    IN  [grid |-> g4, rng |-> RngNext(r3)]

\* grid -= grid.min(); grid /= grid.max()      (lines 89-90 and 140-141)
NormalizeUnguarded(Z) ==
    LET A == FSubScalar(Z, FMin(Z)) IN FDivScalar(A, FMax(A))

\* DiamondSquareGenerator.generate: [Z |-> the field returned, rng |-> np.random after]
DSGenerate(r, size, roughness) ==
    LET n == DSGridSide(size)
        st == DSLoop(DSCorners(n, r), n, n - 1, roughness)
    IN  [Z |-> NormalizeUnguarded(Field(n, n, st.grid)), rng |-> st.rng]

\* noise.pnoise2, the coherent-noise primitive FBMGenerator imports (lines 102-105):
\* a fixed function of the coordinates, zero on the integer lattice.
pnoise2(x, y) ==
    IF IsNaN(x) \/ IsNaN(y) THEN NaN
    ELSE IF x % Unit = 0 /\ y % Unit = 0 THEN R0
    ELSE Rat(((3 * (x \div 100) + 5 * (y \div 100) + 7 * (x \div Unit)) % 7) - 3, 4)

\* Lines 131-136: the sum of the octaves at one cell
RECURSIVE FBMOctaves(_, _, _, _, _, _, _)
FBMOctaves(x, y, amp, freq, k, persistence, lacunarity) ==
    IF k <= 0 THEN R0
    ELSE RAdd(RMul(amp, pnoise2(RMul(x, freq), RMul(y, freq))),
              FBMOctaves(x, y, RMul(amp, persistence), RMul(freq, lacunarity),
                         k - 1, persistence, lacunarity))

\* FBMGenerator.generate with the noise package present (lines 118-142; the
\* generator draws nothing from np.random on this path).
FBMGenerate(size, octaves, persistence, lacunarity, scale) ==
    NormalizeUnguarded(
        Field(size, size,
              [c \in Cells(size, size) |->
                  FBMOctaves(RDiv(Rat(c[1], 1), scale), RDiv(Rat(c[2], 1), scale),
                             R1, R1, octaves, persistence, lacunarity)]))

----------------------------------------------------------------------------
(* post_processing.py: voronoi_cliffs *)

\* np.random.uniform(0, high, size=k) from state r: the k values high * rand(),
\* kept as the integers high * state over the common denominator RngMod.
RECURSIVE UniformDraws(_, _, _)
UniformDraws(r, high, k) ==
    IF k <= 0 THEN [vals |-> <<>>, rng |-> r]
    ELSE LET rest == UniformDraws(RngNext(r), high, k - 1)
         IN  [vals |-> <<high * r>> \o rest.vals, rng |-> rest.rng]

\* Lines 118-123: the sites, x along the n axis and y along the m axis.
VoronoiSites(r, n, m, num_sites) ==
    LET xs == UniformDraws(r, n, num_sites)
        ys == UniformDraws(xs.rng, m, num_sites)
    IN  [pts |-> [k \in 1..num_sites |-> <<xs.vals[k], ys.vals[k]>>], rng |-> ys.rng]

\* Twice the signed area of the triangle a b c.
Cross(a, b, c) ==
    (b[1] - a[1]) * (c[2] - a[2]) - (b[2] - a[2]) * (c[1] - a[1])
Norm2(a) == a[1] * a[1] + a[2] * a[2]
\* d lies strictly inside the circle through a, b, c (the in-circle determinant,
\* signed by the orientation of a b c).
InCircle(a, b, c, d) ==
    LET ax == a[1] - d[1]
        ay == a[2] - d[2]
        bx == b[1] - d[1]
        by == b[2] - d[2]
        cx == c[1] - d[1]
        cy == c[2] - d[2]
        det == (ax * ax + ay * ay) * (bx * cy - cx * by)
               - (bx * bx + by * by) * (ax * cy - cx * ay)
               + (cx * cx + cy * cy) * (ax * by - bx * ay)
    IN  IF Cross(a, b, c) > 0 THEN det > 0 ELSE det < 0

\* num / den as a fixed-point number, for den > 0, without leaving 32 bits.
DivFix(num, den) == (num \div den) * Unit + ((num % den) * Unit) \div den
\* A coordinate farther than this from the grid contributes nothing: the ridge
\* influence at that distance is below the resolution of the arithmetic.
Far == 4 * 10
Clamp(x) == IF x > Far * Unit THEN Far * Unit
            ELSE IF x < -(Far * Unit) THEN -(Far * Unit) ELSE x

\* The circumcentre of the triangle a b c, in grid units.
Circumcentre(a, b, c) ==
    LET D == 2 * Cross(a, b, c)
        sgn == IF D > 0 THEN 1 ELSE -1
        nx == Norm2(a) * (b[2] - c[2]) + Norm2(b) * (c[2] - a[2])
              + Norm2(c) * (a[2] - b[2])
        ny == Norm2(a) * (c[1] - b[1]) + Norm2(b) * (a[1] - c[1])
              + Norm2(c) * (b[1] - a[1])
    IN  <<DivFix(sgn * nx, sgn * D * RngMod), DivFix(sgn * ny, sgn * D * RngMod)>>

\* Line 124, Voronoi(pts).vertices: the circumcentres of the Delaunay triangles of
\* the sites, i.e. of the triples whose circumcircle holds no other site.
VoronoiVertices(pts) ==
    LET K == DOMAIN pts
        Delaunay == {t \in K \X K \X K :
                        /\ t[1] < t[2] /\ t[2] < t[3]
                        /\ Cross(pts[t[1]], pts[t[2]], pts[t[3]]) # 0
                        /\ \A k \in K \ {t[1], t[2], t[3]} :
                               ~InCircle(pts[t[1]], pts[t[2]], pts[t[3]], pts[k])}
    IN  {Circumcentre(pts[t[1]], pts[t[2]], pts[t[3]]) : t \in Delaunay}

\* Lines 125-129: the squared distance of grid point c to the nearest vertex.
Dist2(c, vs) ==
    LET d2(v) == LET dx == Clamp(c[1] * Unit - v[1]) \div 100
                     dy == Clamp(c[2] * Unit - v[2]) \div 100
                 IN  dx * dx + dy * dy
        all == {d2(v) : v \in vs}
    IN  CHOOSE x \in all : \A y \in all : x <= y

\* np.exp(-x) for x >= 0, by the decreasing approximant 1 / (1 + x + x^2 / 2).
ExpNeg(x) ==
    IF x >= 20 * Unit THEN R0
    ELSE LET h == x \div 100 IN (Unit * Unit) \div (Unit + x + (h * h) \div 2)

\* Line 131: exp(-(dist_map**2) / (2 * (n/num_sites)**2))
Influence(n, m, num_sites, vs) ==
    [c \in Cells(n, m) |->
        ExpNeg((Dist2(c, vs) * num_sites * num_sites) \div (2 * n * n))]

\* voronoi_cliffs(Z, num_sites, ridge_height) with np.random in state r:
\* [rng |-> np.random after, ret |-> the field returned or the error raised].
\* scipy's Voronoi rejects fewer than three sites and sites that span no
\* triangle; the sites have been drawn by then.
voronoi_cliffs(r, Z, num_sites, ridge_height) ==
    IF num_sites < 0 THEN [rng |-> r, ret |-> [status |-> "raised", error |-> "ValueError"]]
    ELSE
    LET sites == VoronoiSites(r, Z.n, Z.m, num_sites)
        vs == VoronoiVertices(sites.pts)
    IN  IF num_sites < 3 \/ vs = {}
        THEN [rng |-> sites.rng, ret |-> [status |-> "raised", error |-> "QhullError"]]
        ELSE LET influence == Influence(Z.n, Z.m, num_sites, vs)
                 Z2 == Field(Z.n, Z.m,
                             [c \in Cells(Z.n, Z.m) |->
                                 RAdd(Z.v[c], RMul(ridge_height, influence[c]))])
             IN  [rng |-> sites.rng,
                  ret |-> [status |-> "ok", Z |-> NormalizeGuarded(Z2)]]

----------------------------------------------------------------------------
(* heightmap_generators.py: generate_heightmap *)

\* post.get(key, default)
Get(opt, default) == IF opt = None THEN default ELSE opt[1]
\* if post.get(key): the key is present and its value is not 0
Truthy(opt) == opt # None /\ opt[1] # 0

\* algorithm.lower(), on the names the callers of the model pass
Lower(name) ==
    CASE name = "Diamond-Square" -> "diamond-square"
      [] name = "FBM" -> "fbm"
      [] OTHER -> name

Raised(error) == [status |-> "raised", error |-> error]
Ok(Z) == [status |-> "ok", Z |-> Z]

\* Mutant: the generator is constructed before the algorithm name is checked.
Mut_UnknownAlgorithm(r, a) ==
    {[rng |-> GeneratorInit(r, a.seed), ret |-> Raised("ValueError"), stages |-> <<>>]}
\* Lines 170-171: raise ValueError, np.random as it was.
UnknownAlgorithm(r, a) ==
    {[rng |-> r, ret |-> Raised("ValueError"), stages |-> <<>>]}

\* Mutant: hydraulic erosion runs before thermal erosion.
Mut_StageOrder == <<"hydraulic", "thermal", "voronoi">>
\* Lines 175-193: the three `if post.get(...)` blocks, in the order of the text.
StageOrder == <<"thermal", "hydraulic", "voronoi">>

\* One `if post.get(count): Z = stage(Z, ...)` block, entered with outcome o =
\* [rng, ret, stages]; the set of outcomes it can leave.  An error raised by an
\* earlier block has ended the call.
RunStage(name, o, post) ==
    IF o.ret.status # "ok" THEN {o}
    ELSE IF name = "thermal" /\ Truthy(post.thermal_iters)
    THEN {[rng |-> o.rng, ret |-> Ok(Zt), stages |-> Append(o.stages, name)] :
             Zt \in thermal_erosion(o.ret.Z, post.thermal_iters[1],
                                    Get(post.talus_angle, Rat(1, 100)))}
    ELSE IF name = "hydraulic" /\ Truthy(post.hydro_iters)
    THEN {[rng |-> o.rng, ret |-> Ok(Zh), stages |-> Append(o.stages, name)] :
             Zh \in hydraulic_erosion(o.ret.Z, post.hydro_iters[1],
                                      Get(post.rain_amount, Rat(1, 100)),
                                      Get(post.solubility, Rat(1, 10)))}
    ELSE IF name = "voronoi" /\ Truthy(post.voronoi_sites)
    THEN LET v == voronoi_cliffs(o.rng, o.ret.Z, post.voronoi_sites[1],
                                 Get(post.ridge_height, RHalf))
         IN  {[rng |-> v.rng, ret |-> v.ret, stages |-> Append(o.stages, name)]}
    ELSE {o}

RECURSIVE RunStages(_, _, _)
RunStages(names, os, post) ==
    IF names = <<>> THEN os
    ELSE RunStages(Tail(names), UNION {RunStage(Head(names), o, post) : o \in os}, post)

\* Lines 173-195: Z = gen.generate(**params), then the post-processing stages
\* asked for; the set of outcomes [rng, ret, stages], stages being the stages
\* that ran, in the order they ran.
PostProcess(r, Z, post) ==
    RunStages(StageOrder, {[rng |-> r, ret |-> Ok(Z), stages |-> <<"generator">>]}, post)

\* generate_heightmap(algorithm, size, seed, **params) with np.random in state r,
\* the keyword parameters already split into a.params and a.post: the set of its
\* outcomes [rng |-> np.random after, ret |-> what the caller gets, stages].
generate_heightmap(r, a) ==
    LET algo == Lower(a.algorithm) IN
    IF algo = "diamond-square"
    THEN LET g == DSGenerate(GeneratorInit(r, a.seed), a.size, a.params.roughness)
         IN  PostProcess(g.rng, g.Z, a.post)
    ELSE IF algo \in {"fbm", "fractal-brownian-motion"}
    THEN LET Zg == FBMGenerate(a.size, a.params.octaves, a.params.persistence,
                               a.params.lacunarity, a.params.scale)
         IN  PostProcess(GeneratorInit(r, a.seed), Zg, a.post)
    ELSE UnknownAlgorithm(r, a)

----------------------------------------------------------------------------
(* The erosion specification: direct calls of thermal_erosion and
   hydraulic_erosion on small fields *)

CellVals == {R0, RHalf, R1, Rat(2, 1)}
\* The cells whose height the caller chooses freely; the others share one height.
FreeCells(n, m) == {c \in Cells(n, m) : c[2] = 1 \/ c = <<1, 0>>}
ErosionShapes == {<<3, 3>>, <<4, 3>>}
ErosionFields ==
    UNION {
        {Field(sh[1], sh[2],
               [c \in Cells(sh[1], sh[2]) |->
                   IF c \in FreeCells(sh[1], sh[2]) THEN f[c] ELSE base])
            : f \in [FreeCells(sh[1], sh[2]) -> CellVals], base \in {R0, R1}}
        : sh \in ErosionShapes }

TalusVals == {Rat(1, 100), Rat(1, 4)}
\* (rain_amount, solubility): the defaults, and a heavy rain on soft ground
HydroParams == {<<Rat(1, 100), Rat(1, 10)>>, <<RHalf, RHalf>>}
ThermalInputs ==
    [kind : {"thermal"}, Z : ErosionFields, iterations : (-1)..MaxIters,
     talus_angle : TalusVals]
HydroInputs ==
    [kind : {"hydraulic"}, Z : ErosionFields, iterations : (-1)..MaxIters,
     params : HydroParams]

InitErosion ==
    /\ rng = 0
    /\ \/ op = "thermal_erosion" /\ args \in ThermalInputs
       \/ op = "hydraulic_erosion" /\ args \in HydroInputs
    /\ ret = Pending
    /\ probe = NoArgs
    /\ seen = NoRet

ThermalErosion ==
    /\ op = "thermal_erosion"
    /\ ret = Pending
    /\ \E Zt \in thermal_erosion(args.Z, args.iterations, args.talus_angle) :
           ret' = [status |-> "ok", Z |-> Zt]
    /\ UNCHANGED <<rng, op, args, probe, seen>>

HydraulicErosion ==
    /\ op = "hydraulic_erosion"
    /\ ret = Pending
    /\ \E Zh \in hydraulic_erosion(args.Z, args.iterations,
                                   args.params[1], args.params[2]) :
           ret' = [status |-> "ok", Z |-> Zh]
    /\ UNCHANGED <<rng, op, args, probe, seen>>

NextErosion == ThermalErosion \/ HydraulicErosion

SpecErosion == InitErosion /\ [][NextErosion]_vars

ErosionReturned == Returned("thermal_erosion") \/ Returned("hydraulic_erosion")

IsFlat(Z) == \A p, q \in DOMAIN Z.v : Z.v[p] = Z.v[q]
InUnit(x) == RLe(R0, x) /\ RLe(x, R1)

\* C4: for every input field and iteration count >= 0 both simulators return a
\* field of the input's shape with all values in [0,1], minimum 0, and maximum 1
\* unless the result is flat.
C4_ShapeAndRange ==
    (ErosionReturned /\ args.iterations >= 0) =>
        /\ ret.status = "ok"
        /\ Shape(ret.Z) = Shape(args.Z)
        /\ DOMAIN ret.Z.v = DOMAIN args.Z.v
        /\ \A p \in DOMAIN ret.Z.v : InUnit(ret.Z.v[p])
        /\ \E p \in DOMAIN ret.Z.v : ret.Z.v[p] = R0
        /\ IsFlat(ret.Z) \/ \E p \in DOMAIN ret.Z.v : ret.Z.v[p] = R1

\* C4 witness: a thermal run of two passes returned a field that is not flat and
\* differs from its input.
C4_Witness ==
    /\ Returned("thermal_erosion")
    /\ args.iterations = 2
    /\ ~IsFlat(ret.Z)
    /\ ret.Z # args.Z
    /\ \E p \in DOMAIN ret.Z.v : RLt(R0, ret.Z.v[p]) /\ RLt(ret.Z.v[p], R1)

\* Min-max normalization: (z - min) / (max - min), the zero field when max = min.
MinMaxNorm(Z) ==
    LET lo == FMin(Z)
        hi == FMax(Z)
    IN  [Z EXCEPT !.v = [p \in DOMAIN Z.v |->
            IF lo = hi THEN R0 ELSE RDiv(RSub(Z.v[p], lo), RSub(hi, lo))]]

IsNormalized(Z) == FMin(Z) = R0 /\ FMax(Z) = R1

\* C5: with iteration count 0 both simulators return the min-max normalization
\* of their input, which is the input itself when it is already normalized.
C5_ZeroIterations ==
    (ErosionReturned /\ args.iterations = 0) =>
        /\ ret.status = "ok"
        /\ ret.Z = MinMaxNorm(args.Z)
        /\ IsNormalized(args.Z) => ret.Z = args.Z

\* C5 witness: a zero-iteration hydraulic call on a field that is neither flat
\* nor normalized returned a different, normalized field.
C5_Witness ==
    /\ Returned("hydraulic_erosion")
    /\ args.iterations = 0
    /\ ~IsFlat(args.Z)
    /\ ~IsNormalized(args.Z)
    /\ ret.Z # args.Z
    /\ IsNormalized(ret.Z)

\* C7 (as claimed): a negative iteration count is rejected and no field is returned.
C7_NegativeIterationsRejected ==
    (ErosionReturned /\ args.iterations < 0) => ret.status = "raised"

----------------------------------------------------------------------------
(* The pipeline specification: one call of generate_heightmap *)

Algorithms ==
    {"diamond-square", "Diamond-Square", "fbm", "fractal-brownian-motion", "perlin"}
KnownAlgorithm(name) ==
    Lower(name) \in {"diamond-square", "fbm", "fractal-brownian-motion"}
IsDS(name) == Lower(name) = "diamond-square"

Seeds == {None, Some(0), Some(1)}
DSParams == [roughness : {RHalf, R1}]
FBMParams ==
    [octaves : 0..MaxOctaves, persistence : {RHalf}, lacunarity : {Rat(2, 1)},
     scale : {R1, Rat(2, 1)}]

NoPost ==
    [thermal_iters |-> None, talus_angle |-> None, hydro_iters |-> None,
     rain_amount |-> None, solubility |-> None, voronoi_sites |-> None,
     ridge_height |-> None]
Thermal(k) == [NoPost EXCEPT !.thermal_iters = Some(k)]
Hydro(k) ==
    [NoPost EXCEPT !.hydro_iters = Some(k), !.rain_amount = Some(RHalf),
                   !.solubility = Some(RHalf)]
PostSets ==
    {NoPost, Thermal(-1), Thermal(0), Thermal(1),
     [Thermal(1) EXCEPT !.talus_angle = Some(Rat(1, 4))],
     Hydro(-1), [NoPost EXCEPT !.hydro_iters = Some(1)], Hydro(1),
     [Hydro(1) EXCEPT !.thermal_iters = Some(1)]}

GenArgs ==
    {a \in [algorithm : Algorithms, size : {1, 2, MaxSize}, seed : Seeds,
            params : DSParams \cup FBMParams, post : PostSets] :
        IF IsDS(a.algorithm) \/ ~KnownAlgorithm(a.algorithm)
        THEN a.params \in DSParams
        ELSE a.params \in FBMParams}

Init ==
    /\ rng \in RngStates
    /\ op = "generate_heightmap"
    /\ args \in GenArgs
    /\ ret = Pending
    /\ probe = NoArgs
    /\ seen = NoRet

GenerateHeightmap ==
    /\ op = "generate_heightmap"
    /\ ret = Pending
    /\ \E o \in generate_heightmap(rng, args) :
           /\ rng' = o.rng
           /\ ret' = o.ret
    /\ UNCHANGED <<op, args, probe, seen>>

Next == GenerateHeightmap

Spec == Init /\ [][Next]_vars

GeneratorReturned ==
    /\ op = "generate_heightmap"
    /\ ret # Pending
    /\ ret.status = "ok"
    /\ args.post = NoPost

\* C2 (as claimed): every field a generator returns has its values in [0,1] with
\* minimum 0, and has maximum 1 or, when it was constant before normalization,
\* is all zeros; no cell is NaN.
C2_GeneratorRange ==
    GeneratorReturned =>
        /\ \A p \in DOMAIN ret.Z.v : ~IsNaN(ret.Z.v[p]) /\ InUnit(ret.Z.v[p])
        /\ FMin(ret.Z) = R0
        /\ FMax(ret.Z) = R1 \/ \A p \in DOMAIN ret.Z.v : ret.Z.v[p] = R0

\* C6: a call of generate_heightmap with an unknown algorithm name raises
\* ValueError, returns no field, and leaves np.random as it was.
C6_UnknownKindRejected ==
    [][(/\ op = "generate_heightmap"
        /\ ret = Pending
        /\ ret' # Pending
        /\ ~KnownAlgorithm(args.algorithm)) =>
          /\ ret' = Raised("ValueError")
          /\ rng' = rng]_vars

\* C6 witness: a call with an unknown name and a seed was rejected, and np.random
\* is not in the state the seed would have put it in.
C6_Witness ==
    /\ op = "generate_heightmap"
    /\ ~KnownAlgorithm(args.algorithm)
    /\ ret = Raised("ValueError")
    /\ args.seed # None
    /\ rng # RngSeed(args.seed[1])

----------------------------------------------------------------------------
(* The determinism specification: generate_heightmap is called with the
   arguments probe, other users of np.random run, and it is called with the
   same arguments again. *)

DetArgs ==
    {a \in GenArgs :
        /\ a.algorithm \in {"diamond-square", "fbm"}
        /\ a.size \in {2, MaxSize}
        /\ a.params \in [roughness : {R1}] \cup
                         [octaves : {MaxOctaves}, persistence : {RHalf},
                          lacunarity : {Rat(2, 1)}, scale : {Rat(2, 1)}]
        /\ a.post \in {NoPost, Thermal(1), Hydro(1)}}

InitDet ==
    /\ rng \in RngStates
    /\ op = "none"
    /\ args = NoArgs
    /\ ret = NoRet
    /\ probe \in DetArgs
    /\ seen = NoRet

FirstCall ==
    /\ seen = NoRet
    /\ \E o \in generate_heightmap(rng, probe) :
           /\ rng' = o.rng
           /\ ret' = o.ret
           /\ seen' = o.ret
    /\ op' = "generate_heightmap"
    /\ args' = probe
    /\ UNCHANGED probe

\* Any other code that draws from the global generator: np.random.rand()
NumpyDraw ==
    /\ seen # NoRet
    /\ op # "generate_heightmap_again"
    /\ op' = "np.random.rand"
    /\ args' = NoArgs
    /\ ret' = [status |-> "ok", value |-> RngValue(rng)]
    /\ rng' = RngNext(rng)
    /\ UNCHANGED <<probe, seen>>

SecondCall ==
    /\ seen # NoRet
    /\ op # "generate_heightmap_again"
    /\ \E o \in generate_heightmap(rng, probe) :
           /\ rng' = o.rng
           /\ ret' = o.ret
    /\ op' = "generate_heightmap_again"
    /\ args' = probe
    /\ UNCHANGED <<probe, seen>>

NextDet == FirstCall \/ NumpyDraw \/ SecondCall

SpecDet == InitDet /\ [][NextDet]_vars

\* C3 (as claimed): the second call with the same arguments and a seed returns
\* the field the first call returned, whatever ran in between.
C3_Deterministic ==
    (op = "generate_heightmap_again" /\ probe.seed # None) => ret = seen

----------------------------------------------------------------------------
(* The cliff specification: direct calls of voronoi_cliffs *)

MaxSites == 3

RampField(n, m) == Field(n, m, [c \in Cells(n, m) |-> Rat(c[1] + c[2], n + m)])
CliffFields == {ConstField(2, 2, RHalf), RampField(2, 3), RampField(3, 3)}

CliffInputs ==
    [kind : {"cliffs"}, Z : CliffFields, num_sites : (-1)..MaxSites,
     ridge_height : {R0, RHalf}]

InitCliffs ==
    /\ rng \in RngStates
    /\ op = "voronoi_cliffs"
    /\ args \in CliffInputs
    /\ ret = Pending
    /\ probe = NoArgs
    /\ seen = NoRet

VoronoiCliffs ==
    /\ op = "voronoi_cliffs"
    /\ ret = Pending
    /\ LET o == voronoi_cliffs(rng, args.Z, args.num_sites, args.ridge_height)
       IN  rng' = o.rng /\ ret' = o.ret
    /\ UNCHANGED <<op, args, probe, seen>>

NextCliffs == VoronoiCliffs

SpecCliffs == InitCliffs /\ [][NextCliffs]_vars

\* C12 (as claimed): with zero or one site voronoi_cliffs raises no error and adds
\* no ridging: it returns the renormalized input field.
C12_DegenerateSitesGuarded ==
    (Returned("voronoi_cliffs") /\ args.num_sites \in {0, 1}) =>
        /\ ret.status = "ok"
        /\ ret.Z = NormalizeGuarded(args.Z)

----------------------------------------------------------------------------
(* spectral.py: radial_power_spectrum and its cache of radial bins *)

\* int(sqrt(k)) for an integer k >= 0
ISqrt(k) == CHOOSE r \in 0..k : r * r <= k /\ (r + 1) * (r + 1) > k

\* Line 23: r = np.hypot(x - cx, y - cy).astype(int), at cell c = <<y, x>>
Radius(c, ny, nx) ==
    LET dy == c[1] - ny \div 2
        dx == c[2] - nx \div 2
    IN  ISqrt(dx * dx + dy * dy)

\* The index of cell c in the raveled array.
Flat(c, nx) == c[1] * nx + c[2]

\* Line 25: tbin_idx, each radius of the grid mapped to the flat indices of its cells
RadialBins(ny, nx) ==
    [ri \in {Radius(c, ny, nx) : c \in Cells(ny, nx)} |->
        {Flat(c, nx) : c \in {d \in Cells(ny, nx) : Radius(d, ny, nx) = ri}}]

\* Mutant: the cache is keyed by the number of cells.
Mut_CacheKey(Z) == <<Z.n * Z.m, 1>>
\* Lines 18-19: key = (ny, nx)
CacheKey(Z) == <<Z.n, Z.m>>

\* sin(2 pi a / M) by Bhaskara's rational approximant of the sine, which is exact
\* at the multiples of pi/6 and pi/2.
SinTurn(a, M) ==
    LET p == a % M
        q == IF 2 * p <= M THEN 2 * p * (M - 2 * p)
             ELSE (2 * p - M) * (2 * M - 2 * p)
        b == Rat(16 * q, 5 * M * M - 4 * q)
    IN  IF 2 * p <= M THEN b ELSE -b
\* exp(-2 pi i j / N) as <<re, im>>
Twiddle(j, N) == <<SinTurn(4 * j + N, 4 * N), -SinTurn(4 * j, 4 * N)>>

CMul(a, b) ==
    <<RSub(RMul(a[1], b[1]), RMul(a[2], b[2])),
      RAdd(RMul(a[1], b[2]), RMul(a[2], b[1]))>>
CAdd(a, b) == <<RAdd(a[1], b[1]), RAdd(a[2], b[2])>>

\* The sum of f[lo] .. f[hi - 1], by halves
RECURSIVE CSumRange(_, _, _)
CSumRange(f, lo, hi) ==
    IF hi <= lo THEN <<R0, R0>>
    ELSE IF hi = lo + 1 THEN f[lo]
    ELSE LET mid == (lo + hi) \div 2
         IN  CAdd(CSumRange(f, lo, mid), CSumRange(f, mid, hi))
CSum(f, k) == CSumRange(f, 0, k)

\* The array f with every entry computed, once.
Table(f) == f @@ [k \in {} |-> 0]

\* The factors exp(-2 pi i j / N), j = 0 .. N - 1
TwiddleTable(N) == Table([j \in 0..(N - 1) |-> Twiddle(j, N)])
\* The transform of every row of Z
RowTransform(Z, wm) ==
    Table([c \in Cells(Z.n, Z.m) |->
              CSum([x \in 0..(Z.m - 1) |->
                       CMul(<<Z.v[<<c[1], x>>], R0>>, wm[(c[2] * x) % Z.m])],
                   Z.m)])
\* The transform of every column of rows
ColTransform(rows, n, m, wn) ==
    Table([c \in Cells(n, m) |->
              CSum([y \in 0..(n - 1) |->
                       CMul(rows[<<y, c[2]>>], wn[(c[1] * y) % n])],
                   n)])
\* Line 31, fftpack.fft2(Z): the transform along the rows, then along the columns
\* (each array is computed to a value before the next is).
FFT2(Z) ==
    CHOOSE F \in UNION {{ColTransform(rows, Z.n, Z.m, wn) :
                            rows \in {RowTransform(Z, wm)}} :
                        wm \in {TwiddleTable(Z.m)}, wn \in {TwiddleTable(Z.n)}} : TRUE

\* Line 31, fftpack.fftshift: the zero frequency moves to cell (ny // 2, nx // 2).
FFTShift(F, ny, nx) ==
    [c \in Cells(ny, nx) |->
        F[<<(c[1] + (ny + 1) \div 2) % ny, (c[2] + (nx + 1) \div 2) % nx>>]]

\* Line 32: np.abs(F)**2
AbsSquared(z) ==
    IF IsNaN(z[1]) \/ IsNaN(z[2]) THEN NaN
    ELSE (z[1] \div 100) * (z[1] \div 100) + (z[2] \div 100) * (z[2] \div 100)

\* Lines 31-33: flatP, the shifted power by flat index
FlatPower(Z) ==
    CHOOSE P \in {Table([k \in 0..(Z.n * Z.m - 1) |->
                            AbsSquared(F[<<k \div Z.m, k % Z.m>>])]) :
                     F \in {Table(FFTShift(F2, Z.n, Z.m)) : F2 \in {FFT2(Z)}}} : TRUE

\* The sum of f over the indices S, by halves
RECURSIVE SumSet(_, _)
SumSet(f, S) ==
    IF S = {} THEN R0
    ELSE IF Cardinality(S) = 1 THEN f[CHOOSE x \in S : TRUE]
    ELSE LET mid == CHOOSE x \in S :
                        Cardinality({y \in S : y < x}) = Cardinality(S) \div 2
         IN  RAdd(SumSet(f, {y \in S : y < mid}), SumSet(f, {y \in S : y >= mid}))

\* flatP[idxs].mean()
MeanOver(flatP, idxs) ==
    LET total == SumSet(flatP, idxs)
    IN  IF IsNaN(total) THEN NaN ELSE total \div Cardinality(idxs)

\* sorted(S) as a sequence
RECURSIVE SortedSeq(_)
SortedSeq(S) ==
    IF S = {} THEN <<>>
    ELSE LET lo == CHOOSE x \in S : \A y \in S : x <= y
         IN  <<lo>> \o SortedSeq(S \ {lo})

\* Mutant: the zero-frequency bin is not skipped.
Mut_SpectrumOf(tbin_idx, flatP) ==
    LET radii == SortedSeq(DOMAIN tbin_idx)
    IN  [freqs |-> radii,
         power |-> [i \in 1..Len(radii) |-> MeanOver(flatP, tbin_idx[radii[i]])]]
\* Lines 35-43: one entry per cached radius except radius 0, in increasing order
SpectrumOf(tbin_idx, flatP) ==
    LET radii == SortedSeq(DOMAIN tbin_idx \ {0})
    IN  [freqs |-> radii,
         power |-> [i \in 1..Len(radii) |-> MeanOver(flatP, tbin_idx[radii[i]])]]

\* radial_power_spectrum(Z) with _radial_cache = cache:
\* [cache |-> _radial_cache after, freqs, power |-> the two arrays returned]
radial_power_spectrum(cache, Z) ==
    CHOOSE o \in
        UNION {{[cache |-> IF key \notin DOMAIN cache THEN (key :> tbin_idx) @@ cache
                           ELSE cache,
                 freqs |-> out.freqs, power |-> Table(out.power)] :
                    out \in {SpectrumOf(tbin_idx, flatP) : flatP \in {FlatPower(Z)}}} :
               key \in {CacheKey(Z)},
               tbin_idx \in {IF CacheKey(Z) \notin DOMAIN cache
                             THEN RadialBins(Z.n, Z.m) ELSE cache[CacheKey(Z)]}} : TRUE

\* _radial_cache = {} at import
EmptyCache == [k \in {} |-> {}]

----------------------------------------------------------------------------
(* The spectrum specification: successive calls of radial_power_spectrum in one
   process, _radial_cache living from call to call *)

MaxCalls == 3

SpectrumShapes == {<<1, 1>>, <<2, 2>>, <<2, 4>>, <<4, 2>>, <<4, 4>>}
\* A field with one cell raised above a ramp, and a flat field.
SpikeField(n, m) ==
    Field(n, m, [c \in Cells(n, m) |->
                    IF c = <<n - 1, m \div 2>> THEN R1 ELSE Rat(c[1], 2 * n)])
SpectrumFields ==
    {SpikeField(sh[1], sh[2]) : sh \in SpectrumShapes}
    \cup {ConstField(sh[1], sh[2], RHalf) : sh \in SpectrumShapes}

InitSpectrum ==
    /\ rng = 0
    /\ op = "radial_power_spectrum"
    /\ args = NoArgs
    /\ ret = Pending
    /\ probe = [kind |-> "cache", cache |-> EmptyCache, calls |-> 0]
    /\ seen = NoRet

RadialPowerSpectrum ==
    /\ op = "radial_power_spectrum"
    /\ probe.calls < MaxCalls
    /\ \E Z \in SpectrumFields :
           LET o == radial_power_spectrum(probe.cache, Z)
           IN  /\ args' = [kind |-> "spectrum", Z |-> Z]
               /\ ret' = [status |-> "ok", freqs |-> o.freqs, power |-> o.power]
               /\ probe' = [kind |-> "cache", cache |-> o.cache,
                            calls |-> probe.calls + 1]
    /\ UNCHANGED <<rng, op, seen>>

NextSpectrum == RadialPowerSpectrum

SpecSpectrum == InitSpectrum /\ [][NextSpectrum]_vars

\* The cells of the grid of Z whose integer radius is ri, as flat indices.
CellsAtRadius(Z, ri) ==
    {Flat(c, Z.m) : c \in {d \in Cells(Z.n, Z.m) : Radius(d, Z.n, Z.m) = ri}}

\* C13: radial_power_spectrum returns two sequences of equal length; the radii
\* are strictly increasing and are exactly the non-zero integer radii of the
\* grid; the i-th power is the mean of the power over exactly the cells of the
\* i-th radius, so every cell but the zero-frequency one is in exactly one bin.
C13_RadialProfile ==
    Returned("radial_power_spectrum") =>
        LET Z == args.Z
            flatP == FlatPower(Z)
        IN  /\ Len(ret.freqs) = Len(ret.power)
            /\ \A i \in 1..(Len(ret.freqs) - 1) : ret.freqs[i] < ret.freqs[i + 1]
            /\ {ret.freqs[i] : i \in 1..Len(ret.freqs)}
                   = {Radius(c, Z.n, Z.m) : c \in Cells(Z.n, Z.m)} \ {0}
            /\ \A i \in 1..Len(ret.freqs) :
                   ret.power[i] = MeanOver(flatP, CellsAtRadius(Z, ret.freqs[i]))
            /\ \A c \in Cells(Z.n, Z.m) :
                   Radius(c, Z.n, Z.m) # 0 =>
                       Cardinality({i \in 1..Len(ret.freqs) :
                                       ret.freqs[i] = Radius(c, Z.n, Z.m)}) = 1

\* C13 witness: a call on a 4 x 4 field that is not flat returned the two radii
\* 1 and 2, with non-zero power in both bins.
C13_Witness ==
    /\ Returned("radial_power_spectrum")
    /\ Shape(args.Z) = <<4, 4>>
    /\ ret.freqs = <<1, 2>>
    /\ RGt(ret.power[1], R0) /\ RGt(ret.power[2], R0)

\* C14: a call leaves every cache entry as it was, each entry is the binning of
\* its shape, and a call on a shape already cached changes nothing in the cache
\* and returns what a call with an empty cache returns for that grid.
C14_CacheReuse ==
    [][(op = "radial_power_spectrum" /\ probe'.calls = probe.calls + 1) =>
          /\ \A k \in DOMAIN probe.cache :
                 k \in DOMAIN probe'.cache /\ probe'.cache[k] = probe.cache[k]
          /\ \A k \in DOMAIN probe'.cache :
                 probe'.cache[k] = RadialBins(k[1], k[2])
          /\ Shape(args'.Z) \in DOMAIN probe.cache =>
                 /\ probe'.cache = probe.cache
                 /\ LET cold == radial_power_spectrum(EmptyCache, args'.Z)
                    IN  ret'.freqs = cold.freqs /\ ret'.power = cold.power]_vars

\* C14 witness: more calls were made than shapes are cached, so a call was served
\* from the cache, and shapes with the same number of cells are both cached.
C14_Witness ==
    /\ Returned("radial_power_spectrum")
    /\ probe.calls > Cardinality(DOMAIN probe.cache)
    /\ {<<2, 4>>, <<4, 2>>} \subseteq DOMAIN probe.cache

----------------------------------------------------------------------------
(* reverse_engineering.py *)

\* -inf, what np.log returns for 0: a value outside the range of the arithmetic.
NegInf == NaN - 1
IsFinite(x) == ~IsNaN(x) /\ x # NegInf

\* x = m * 2^k with 1 <= m < 2, as <<m, k>>, for x > 0
RECURSIVE Mantissa(_, _)
Mantissa(x, k) ==
    IF x >= 2 * Unit THEN Mantissa(x \div 2, k + 1)
    ELSE IF x < Unit THEN Mantissa(2 * x, k - 1)
    ELSE <<x, k>>

\* ln 2
Ln2 == 6931

\* np.log(x): k ln 2 + ln m, with ln m = 2 (z + z^3/3 + z^5/5), z = (m - 1)/(m + 1)
Ln(x) ==
    IF IsNaN(x) \/ x < 0 THEN NaN
    ELSE IF x = 0 THEN NegInf
    ELSE LET mk == Mantissa(x, 0)
             z == Rat(mk[1] - Unit, mk[1] + Unit)
             z2 == RMul(z, z)
             z3 == RMul(z2, z)
             z5 == RMul(z3, z2)
         IN  mk[2] * Ln2 + 2 * (z + z3 \div 3 + z5 \div 5)

RECURSIVE SumSeq(_)
SumSeq(sq) == IF sq = <<>> THEN 0 ELSE Head(sq) + SumSeq(Tail(sq))

\* LinearRegression().fit(x.reshape(-1, 1), y) for finite samples: least squares
\* with an intercept, the minimum-norm solution (slope 0) when x does not vary.
LeastSquares(xs, ys) ==
    LET n == Len(xs)
        xm == SumSeq(xs) \div n
        ym == SumSeq(ys) \div n
        sxx == SumSeq([i \in 1..n |-> RMul(xs[i] - xm, xs[i] - xm)])
        sxy == SumSeq([i \in 1..n |->
                          (((xs[i] - xm) \div 10) * ((ys[i] - ym) \div 10)) \div 100])
        coef == IF sxx = 0 THEN R0
                ELSE IF sxy >= 0 THEN DivFix(sxy, sxx) ELSE -DivFix(-sxy, sxx)
    IN  [coef |-> coef, intercept |-> ym - RMul(coef, xm)]

\* Lines 11-20 of estimate_spectral_exponent, sp being what line 10 returned.
\* sklearn validates what it is given to fit: no sample, or a sample that is
\* NaN or infinite, is a ValueError.
FitSpectrum(sp, Z, fit_range) ==
    LET range == IF fit_range = None
                 THEN <<5, (IF Z.n <= Z.m THEN Z.n ELSE Z.m) \div 3>>
                 ELSE fit_range[1]
        mask == SelectSeq([i \in 1..Len(sp.freqs) |-> i],
                          LAMBDA i : sp.freqs[i] >= range[1] /\ sp.freqs[i] <= range[2])
        log_f == [k \in 1..Len(mask) |-> Ln(sp.freqs[mask[k]] * Unit)]
        log_p == [k \in 1..Len(mask) |-> Ln(sp.power[mask[k]])]
    IN  IF Len(mask) = 0 \/ \E k \in 1..Len(mask) : ~IsFinite(log_p[k])
        THEN [cache |-> sp.cache, ret |-> Raised("ValueError")]
        ELSE LET model == LeastSquares(log_f, log_p)
             IN  [cache |-> sp.cache,
                  ret |-> [status |-> "ok", beta |-> model.coef,
                           intercept |-> model.intercept]]

\* estimate_spectral_exponent(Z, fit_range) with _radial_cache = cache
estimate_spectral_exponent(cache, Z, fit_range) ==
    CHOOSE o \in {FitSpectrum(sp, Z, fit_range) :
                     sp \in {radial_power_spectrum(cache, Z)}} : TRUE

\* np.clip(x, 0.0, 1.0)
Clip01(x) == IF IsNaN(x) THEN NaN ELSE IF x < R0 THEN R0 ELSE IF x > R1 THEN R1 ELSE x

\* (beta - 2) / 2, lines 23 and 29
BetaToH(beta) == RDiv(RSub(beta, 2 * Unit), 2 * Unit)

\* Lines 22-23: no clipping
translate_beta_to_H(beta) == BetaToH(beta)

\* Lines 29-36 of fit_fbm_parameters, est being what line 28 returned
FitResult(est, Z, scale, octaves) ==
    IF est.ret.status = "raised" THEN est
    ELSE [cache |-> est.cache,
          ret |-> [status |-> "ok",
                   H |-> Clip01(BetaToH(est.ret.beta)),
                   persistence |-> RHalf,
                   lacunarity |-> 2 * Unit,
                   octaves |-> octaves,
                   scale |-> IF Truthy(scale) THEN scale[1]
                             ELSE Rat(IF Z.n >= Z.m THEN Z.n ELSE Z.m, 2)]]

\* fit_fbm_parameters(Z_real, scale, octaves) with _radial_cache = cache
fit_fbm_parameters(cache, Z_real, scale, octaves) ==
    CHOOSE o \in
        UNION {{FitResult(est, Z, scale, octaves) :
                   est \in {estimate_spectral_exponent(cache, Z, None)}} :
               Z \in {Field(Z_real.n, Z_real.m,
                            Table(NormalizeUnguarded(Z_real).v))}} : TRUE

\* Lines 43-51 of reverse_engineer_heightmap, fit being what line 42 returned
Synthesize(r, fit, size, seed) ==
    IF fit.ret.status = "raised"
    THEN [rng |-> r, cache |-> fit.cache, ret |-> fit.ret]
    ELSE [rng |-> GeneratorInit(r, Some(seed)), cache |-> fit.cache,
          ret |-> [status |-> "ok",
                   params |-> [k \in DOMAIN fit.ret \ {"status"} |-> fit.ret[k]],
                   Z_synth |-> FBMGenerate(size, fit.ret.octaves,
                                           fit.ret.persistence,
                                           fit.ret.lacunarity, fit.ret.scale)]]

\* reverse_engineer_heightmap(Z_real, algorithm, seed) with np.random in state r
\* and _radial_cache = cache
reverse_engineer_heightmap(r, cache, Z_real, algorithm, seed) ==
    IF Lower(algorithm) # "fbm"
    THEN [rng |-> r, cache |-> cache, ret |-> Raised("NotImplementedError")]
    ELSE CHOOSE o \in {Synthesize(r, fit, Z_real.n, seed) :
                          fit \in {fit_fbm_parameters(cache, Z_real, None, 6)}} : TRUE

----------------------------------------------------------------------------
(* The fitting specification: calls of the functions of reverse_engineering.py *)

\* The smallest side the fit is specified for.
FitSide == 4 * 4

\* A field of zeros with cell p at 1 and cell <<0, 0>> at v.
SpotField(n, p, v) ==
    Field(n, n, [c \in Cells(n, n) |->
                    IF c = p THEN R1 ELSE IF c = <<0, 0>> THEN v ELSE R0])
FitFields ==
    {SpotField(FitSide, <<3, 5>>, RHalf), ConstField(FitSide, FitSide, RHalf),
     SpikeField(4, 4)}

Betas == {Rat(k, 2) : k \in (-8)..32}

FitInputs ==
    [kind : {"translate_beta_to_H"}, beta : Betas]
    \cup [kind : {"estimate_spectral_exponent"},
          Z : {Z \in SpectrumFields : Z.n > 1},
          fit_range : {None, Some(<<1, 1>>), Some(<<1, 2>>), Some(<<2, 1>>)}]
    \cup [kind : {"fit_fbm_parameters"}, Z : FitFields,
          scale : {None, Some(4 * Unit)}, octaves : {6}]
    \cup [kind : {"reverse_engineer_heightmap"}, Z : FitFields,
          algorithm : {"fbm", "diamond-square"}, seed : {0, 1}]

InitFit ==
    /\ rng = 0
    /\ args \in FitInputs
    /\ op = args.kind
    /\ ret = Pending
    /\ probe = [kind |-> "cache", cache |-> EmptyCache, calls |-> 0]
    /\ seen = NoRet

TranslateBetaToH ==
    /\ op = "translate_beta_to_H"
    /\ ret = Pending
    /\ ret' = [status |-> "ok", H |-> translate_beta_to_H(args.beta)]
    /\ UNCHANGED <<rng, op, args, probe, seen>>

EstimateSpectralExponent ==
    /\ op = "estimate_spectral_exponent"
    /\ ret = Pending
    /\ LET o == estimate_spectral_exponent(probe.cache, args.Z, args.fit_range)
       IN  /\ ret' = o.ret
           /\ probe' = [kind |-> "cache", cache |-> o.cache, calls |-> 1]
    /\ UNCHANGED <<rng, op, args, seen>>

FitFbmParameters ==
    /\ op = "fit_fbm_parameters"
    /\ ret = Pending
    /\ LET o == fit_fbm_parameters(probe.cache, args.Z, args.scale, args.octaves)
       IN  /\ ret' = o.ret
           /\ probe' = [kind |-> "cache", cache |-> o.cache, calls |-> 1]
    /\ UNCHANGED <<rng, op, args, seen>>

ReverseEngineerHeightmap ==
    /\ op = "reverse_engineer_heightmap"
    /\ ret = Pending
    /\ LET o == reverse_engineer_heightmap(rng, probe.cache, args.Z,
                                           args.algorithm, args.seed)
       IN  /\ rng' = o.rng
           /\ ret' = o.ret
           /\ probe' = [kind |-> "cache", cache |-> o.cache,
                        calls |-> IF o.cache = probe.cache THEN 0 ELSE 1]
    /\ UNCHANGED <<op, args, seen>>

NextFit ==
    \/ TranslateBetaToH
    \/ EstimateSpectralExponent
    \/ FitFbmParameters
    \/ ReverseEngineerHeightmap

SpecFit == InitFit /\ [][NextFit]_vars

\* C15 (as claimed): every translation of an exponent beta into the roughness
\* parameter gives H = clip((beta - 2) / 2, 0, 1), within [0,1], from
\* translate_beta_to_H as from the 'H' entry of fit_fbm_parameters, whose
\* persistence and lacunarity are 0.5 and 2.0.
C15_HClipped ==
    /\ Returned("translate_beta_to_H") =>
           /\ ret.H = Clip01((args.beta - 2 * Unit) \div 2)
           /\ InUnit(ret.H)
    /\ (Returned("fit_fbm_parameters") /\ ret.status = "ok") =>
           /\ InUnit(ret.H)
           /\ ret.persistence = RHalf
           /\ ret.lacunarity = 2 * Unit

WellFormed(Z) == \A c \in DOMAIN Z.v : InUnit(Z.v[c])

\* C16 (as claimed): with the default fit range fit_fbm_parameters and
\* reverse_engineer_heightmap do not raise for a well-formed square field of
\* side >= 16; an H value, and a reconstructed field of the shape of the input,
\* are returned.
C16_FitDoesNotRaise ==
    /\ (Returned("fit_fbm_parameters") /\ args.Z.n = args.Z.m
            /\ args.Z.n >= 16 /\ WellFormed(args.Z)) =>
           ret.status = "ok" /\ IsFinite(ret.H)
    /\ (Returned("reverse_engineer_heightmap") /\ Lower(args.algorithm) = "fbm"
            /\ args.Z.n = args.Z.m /\ args.Z.n >= 16 /\ WellFormed(args.Z)) =>
           /\ ret.status = "ok"
           /\ IsFinite(ret.params.H)
           /\ Shape(ret.Z_synth) = Shape(args.Z)

----------------------------------------------------------------------------
(* heightmap_generators.py: generate_heightmap and its keyword parameters *)

\* Lines 158-162: post_keys
PostKeys ==
    {"thermal_iters", "talus_angle", "hydro_iters", "rain_amount", "solubility",
     "voronoi_sites", "ridge_height"}

\* **params: a sequence of <<key, value>> pairs with distinct keys, in the order
\* the caller wrote them.
KwKeys(kw) == {kw[i][1] : i \in DOMAIN kw}
KwGet(kw, key) ==
    IF key \in KwKeys(kw)
    THEN Some(kw[CHOOSE i \in DOMAIN kw : kw[i][1] = key][2])
    ELSE None

\* Line 163: post = {k: params.pop(k) for k in list(params) if k in post_keys};
\* params keeps the other pairs.
PopPost(kw) ==
    [post |-> [k \in PostKeys |-> KwGet(kw, k)],
     params |-> SelectSeq(kw, LAMBDA e : e[1] \notin PostKeys)]

\* The keyword parameters the two generate() methods accept, and the values of
\* those not given (lines 37 and 112-116).
AcceptedKeys(algo) ==
    IF algo = "diamond-square" THEN {"roughness"}
    ELSE {"octaves", "persistence", "lacunarity", "scale"}
GeneratorParams(algo, params) ==
    IF algo = "diamond-square"
    THEN [roughness |-> Get(KwGet(params, "roughness"), R1)]
    ELSE [octaves |-> Get(KwGet(params, "octaves"), 6),
          persistence |-> Get(KwGet(params, "persistence"), RHalf),
          lacunarity |-> Get(KwGet(params, "lacunarity"), 2 * Unit),
          scale |-> Get(KwGet(params, "scale"), 50 * Unit)]

\* generate_heightmap(algorithm, size, seed, **kw) with np.random in state r.
\* A keyword generate() does not accept is a TypeError, raised when generate() is
\* called, the generator having been constructed.
generate_heightmap_kwargs(r, algorithm, size, seed, kw) ==
    LET split == PopPost(kw)
        algo == Lower(algorithm)
        a == [algorithm |-> algorithm, size |-> size, seed |-> seed,
              params |-> GeneratorParams(algo, split.params), post |-> split.post]
    IN  IF algo \notin {"diamond-square", "fbm", "fractal-brownian-motion"}
        THEN UnknownAlgorithm(r, a)
        ELSE IF ~(KwKeys(split.params) \subseteq AcceptedKeys(algo))
        THEN {[rng |-> GeneratorInit(r, seed), ret |-> Raised("TypeError"),
               stages |-> <<>>]}
        ELSE generate_heightmap(r, a)

----------------------------------------------------------------------------
(* The stage specification: calls of generate_heightmap with keyword parameters
   in every order *)

MaxKw == 3

KwPool ==
    {<<"roughness", RHalf>>, <<"thermal_iters", 0>>, <<"thermal_iters", 1>>,
     <<"hydro_iters", 0>>, <<"hydro_iters", 1>>,
     <<"voronoi_sites", 0>>, <<"voronoi_sites", 1>>, <<"voronoi_sites", 3>>}

RECURSIVE KwSeqs(_)
KwSeqs(k) ==
    IF k = 0 THEN {<<>>}
    ELSE KwSeqs(k - 1) \cup
         {Append(kw, e) : kw \in {q \in KwSeqs(k - 1) : Len(q) = k - 1},
                          e \in KwPool}

StageArgs ==
    [algorithm : {"diamond-square", "fbm", "perlin"}, size : {3},
     seed : {Some(0), Some(1)},
     kwargs : {kw \in KwSeqs(MaxKw) : Cardinality(KwKeys(kw)) = Len(kw)}]

InitStages ==
    /\ rng = 0
    /\ op = "generate_heightmap"
    /\ args \in StageArgs
    /\ ret = Pending
    /\ probe = NoArgs
    /\ seen = NoRet

GenerateHeightmapKwargs ==
    /\ op = "generate_heightmap"
    /\ ret = Pending
    /\ \E o \in generate_heightmap_kwargs(rng, args.algorithm, args.size,
                                          args.seed, args.kwargs) :
           /\ rng' = o.rng
           /\ ret' = o.ret
           /\ probe' = [kind |-> "trace", stages |-> o.stages,
                        forwarded |-> KwKeys(PopPost(args.kwargs).params)]
    /\ UNCHANGED <<op, args, seen>>

NextStages == GenerateHeightmapKwargs

SpecStages == InitStages /\ [][NextStages]_vars

\* The count parameter key was supplied and is not zero.
Wanted(key) ==
    \E i \in DOMAIN args.kwargs : args.kwargs[i][1] = key /\ args.kwargs[i][2] # 0
CountOf(key) ==
    args.kwargs[CHOOSE i \in DOMAIN args.kwargs : args.kwargs[i][1] = key][2]

\* The call reached the generator: the algorithm is known and every keyword that
\* is not a post-processing key is one its generate() accepts.
StagesCall ==
    /\ op = "generate_heightmap"
    /\ ret # Pending
    /\ probe.kind = "trace"
    /\ KnownAlgorithm(args.algorithm)
    /\ (KwKeys(args.kwargs) \ PostKeys) \subseteq AcceptedKeys(Lower(args.algorithm))

\* What the stages of the claim give, in the order of the claim, from the
\* generator's field: the results the call may end with.
StagedResults ==
    LET roughness == IF "roughness" \in KwKeys(args.kwargs) THEN CountOf("roughness")
                     ELSE R1
        g == IF IsDS(args.algorithm)
             THEN DSGenerate(RngSeed(args.seed[1]), args.size, roughness)
             ELSE [Z |-> FBMGenerate(args.size, 6, RHalf, 2 * Unit, 50 * Unit),
                   rng |-> RngSeed(args.seed[1])]
        T == IF Wanted("thermal_iters")
             THEN thermal_erosion(g.Z, CountOf("thermal_iters"), Rat(1, 100))
             ELSE {g.Z}
        H == UNION {IF Wanted("hydro_iters")
                    THEN hydraulic_erosion(z, CountOf("hydro_iters"), Rat(1, 100),
                                           Rat(1, 10))
                    ELSE {z} : z \in T}
    IN  {IF Wanted("voronoi_sites")
         THEN voronoi_cliffs(g.rng, z, CountOf("voronoi_sites"), RHalf).ret
         ELSE Ok(z) : z \in H}

\* C17: generate_heightmap runs generator, thermal erosion, hydraulic erosion,
\* Voronoi cliffs in this order, a post-processing stage once and only when its
\* count was supplied and is not zero, whatever the order of the keywords; each
\* stage works on the output of the one before, and no post-processing key is
\* passed to the generator.
C17_StageOrder ==
    StagesCall =>
        /\ probe.stages =
               <<"generator">>
               \o (IF Wanted("thermal_iters") THEN <<"thermal">> ELSE <<>>)
               \o (IF Wanted("hydro_iters") THEN <<"hydraulic">> ELSE <<>>)
               \o (IF Wanted("voronoi_sites") THEN <<"voronoi">> ELSE <<>>)
        /\ probe.forwarded \cap PostKeys = {}
        /\ ret \in StagedResults

\* C17 witness: the three counts were supplied with the Voronoi count first and
\* the thermal count last, and the three stages ran, thermal first.
C17_Witness ==
    /\ StagesCall
    /\ ret.status = "ok"
    /\ Len(args.kwargs) >= 3
    /\ args.kwargs[1][1] = "voronoi_sites"
    /\ args.kwargs[Len(args.kwargs)][1] = "thermal_iters"
    /\ probe.stages = <<"generator", "thermal", "hydraulic", "voronoi">>

----------------------------------------------------------------------------
(* The shared-state specification: generator objects are constructed and asked
   to generate, voronoi_cliffs is called, and other code draws from np.random,
   in any order, in one process *)

MaxGens == 2
MaxGenerate == 2

\* The argument of every voronoi_cliffs call of this specification.
SharedCliffArgs ==
    [kind |-> "cliffs", Z |-> RampField(3, 3), num_sites |-> 3, ridge_height |-> RHalf]

InitShared ==
    /\ rng \in RngStates
    /\ op = "none"
    /\ args = NoArgs
    /\ ret = NoRet
    /\ probe = [kind |-> "objects", gens |-> <<>>]
    /\ seen = NoRet

\* DiamondSquareGenerator(seed, size) / FBMGenerator(seed, size):
\* HeightMapGenerator.__init__ seeds np.random when a seed is given.
Construct ==
    /\ Len(probe.gens) < MaxGens
    /\ \E algorithm \in {"diamond-square", "fbm"}, seed \in Seeds :
           /\ rng' = GeneratorInit(rng, seed)
           /\ probe' = [kind |-> "objects",
                        gens |-> Append(probe.gens,
                                        [algorithm |-> algorithm, seed |-> seed,
                                         size |-> 3, calls |-> 0])]
           /\ op' = "construct"
           /\ args' = [kind |-> "construct", algorithm |-> algorithm, seed |-> seed]
    /\ ret' = NoRet
    /\ UNCHANGED seen

\* Other code of the process: np.random.rand()
OtherDraw ==
    /\ op \in {"construct", "generate", "voronoi_cliffs"}
    /\ op' = "np.random.rand"
    /\ args' = NoArgs
    /\ ret' = [status |-> "ok", value |-> RngValue(rng)]
    /\ rng' = RngNext(rng)
    /\ UNCHANGED <<probe, seen>>

\* gen.generate() with the default parameters of the class, on object number i:
\* the diamond-square generator draws from np.random as it is now.
Generate ==
    \E i \in DOMAIN probe.gens :
        LET gen == probe.gens[i] IN
        /\ gen.calls < MaxGenerate
        /\ IF gen.algorithm = "diamond-square"
           THEN \E g \in {DSGenerate(rng, gen.size, R1)} :
                    rng' = g.rng /\ ret' = Ok(g.Z)
           ELSE /\ rng' = rng
                /\ ret' = Ok(FBMGenerate(gen.size, 1, RHalf, 2 * Unit, 2 * Unit))
        /\ probe' = [kind |-> "objects",
                     gens |-> [k \in DOMAIN probe.gens |->
                                  IF k = i
                                  THEN [algorithm |-> gen.algorithm, seed |-> gen.seed,
                                        size |-> gen.size, calls |-> gen.calls + 1]
                                  ELSE probe.gens[k]]]
        /\ op' = "generate"
        /\ args' = [kind |-> "generate", gen |-> gen]
        /\ UNCHANGED seen

\* voronoi_cliffs(Z, num_sites, ridge_height), always with the same arguments;
\* seen keeps what the first call returned.
SharedCliffs ==
    /\ \E o \in {voronoi_cliffs(rng, SharedCliffArgs.Z, SharedCliffArgs.num_sites,
                                SharedCliffArgs.ridge_height)} :
           /\ rng' = o.rng
           /\ ret' = o.ret
           /\ seen' = IF seen = NoRet THEN o.ret ELSE seen
    /\ op' = "voronoi_cliffs"
    /\ args' = SharedCliffArgs
    /\ UNCHANGED probe

NextShared == Construct \/ OtherDraw \/ Generate \/ SharedCliffs

SpecShared == InitShared /\ [][NextShared]_vars

\* What a generator object gives when generate() is called right after it is
\* constructed with seed S.
FreshField(gen) ==
    IF gen.algorithm = "diamond-square"
    THEN DSGenerate(RngSeed(gen.seed[1]), gen.size, R1).Z
    ELSE FBMGenerate(gen.size, 1, RHalf, 2 * Unit, 2 * Unit)

\* C19 (as claimed): no state is shared between calls: every voronoi_cliffs call
\* with the same arguments returns what the first returned, and generate() on an
\* object constructed with a seed returns the field of that seed, whatever was
\* constructed, drawn or generated since the object was constructed.
C19_NoSharedState ==
    /\ (op = "voronoi_cliffs" /\ seen # NoRet) => ret = seen
    /\ (op = "generate" /\ args.gen.seed # None) => ret.Z = FreshField(args.gen)

----------------------------------------------------------------------------
(* Arrays as objects: a heap of arrays and the names of the running call, each
   operation as the allocations and the in-place writes of its code.  An array
   is its index in the heap; none of the operations below returns a view of
   an array it was given. *)

\* What a library routine computes from its operands, left uninterpreted.
Term(name, of) == [expr |-> name, of |-> of]

\* A call starting on heap h with its parameters bound to the arrays env
Frame(h, env) == [heap |-> h, env |-> env]
\* The array a name of the call refers to
Val(e, name) == e.heap[e.env[name]]
\* name = <a new array holding data>
Alloc(e, name, data) ==
    [heap |-> Append(e.heap, data), env |-> (name :> (Len(e.heap) + 1)) @@ e.env]
\* An in-place write (-=, /=, a[mask] = x) to the array of a name
Store(e, name, data) ==
    [heap |-> [k \in DOMAIN e.heap |-> IF k = e.env[name] THEN data ELSE e.heap[k]],
     env |-> e.env]
\* name = from.copy()
Copy(e, name, from) == Alloc(e, name, Val(e, from))
\* Mutant: astype(float, copy=False) on an array that is float already.
Mut_AsType(e, name, from) == [heap |-> e.heap, env |-> (name :> e.env[from]) @@ e.env]
\* name = from.astype(float): a new array whatever the dtype (copy=True is the
\* default)
AsType(e, name, from) == Alloc(e, name, Val(e, from))
\* name = np.zeros_like(from)
ZerosLike(e, name, from) ==
    Alloc(e, name, ConstField(Val(e, from).n, Val(e, from).m, R0))

\* What the caller holds when the call returns the arrays of names: its own k
\* arrays and the arrays returned, the temporaries of the call being released.
Return(status, e, names, k) ==
    [heap |-> SubSeq(e.heap, 1, k) \o [i \in 1..Len(names) |-> Val(e, names[i])],
     ret |-> [status |-> status,
              arrays |-> [i \in 1..Len(names) |->
                             IF e.env[names[i]] <= k THEN e.env[names[i]] ELSE k + i]]]

\* thermal_erosion, lines 41-51 (and _thermal_core, lines 17-33), on array z of
\* heap h: the outcomes it can have
ThermalErosionOn(h, z, iterations, talus) ==
    LET s1 == {Copy(e, "copy", "Z") : e \in {Frame(h, [Z |-> z])}}
        s2 == {AsType(e, "Zn", "copy") : e \in s1}
        s3 == {Store(e, "Zn", NormalizeGuarded(Val(e, "Zn"))) : e \in s2}
        s4 == {Copy(e, "Z_out", "Zn") : e \in s3}
        s5 == UNION {{Store(e, "Z_out", Zt) :
                         Zt \in thermal_core(Val(e, "Zn"), iterations, talus)} :
                     e \in s4}
        s6 == {Store(e, "Z_out", NormalizeGuarded(Val(e, "Z_out"))) : e \in s5}
    IN  {Return("ok", e, <<"Z_out">>, Len(h)) : e \in s6}

\* hydraulic_erosion, lines 100-112 (and _hydro_core, lines 61-91), on array z
\* of heap h: the outcomes it can have
HydraulicErosionOn(h, z, iterations, rain_amount, solubility) ==
    LET s1 == {Copy(e, "copy", "Z") : e \in {Frame(h, [Z |-> z])}}
        s2 == {AsType(e, "Zn", "copy") : e \in s1}
        s3 == {Store(e, "Zn", NormalizeGuarded(Val(e, "Zn"))) : e \in s2}
        s4 == {ZerosLike(e, "water", "Zn") : e \in s3}
        s5 == {ZerosLike(e, "sediment", "Zn") : e \in s4}
        s6 == {Copy(e, "Z_out", "Zn") : e \in s5}
        s7 == {Copy(e, "W", "water") : e \in s6}
        s8 == {Copy(e, "S", "sediment") : e \in s7}
        s9 == UNION {{Store(e, "Z_out", Zh) :
                         Zh \in hydro_core(Val(e, "Z_out"), Val(e, "W"), Val(e, "S"),
                                           iterations, rain_amount, solubility)} :
                     e \in s8}
        s10 == {Store(e, "Z_out", NormalizeGuarded(Val(e, "Z_out"))) : e \in s9}
    IN  {Return("ok", e, <<"Z_out">>, Len(h)) : e \in s10}

\* voronoi_cliffs, lines 117-136, on array z of heap h: Z2 = Z + ridge_height *
\* influence is a new array, normalised in place.
VoronoiCliffsOn(h, r, z, num_sites, ridge_height) ==
    LET s1 == {[e |-> e, o |-> voronoi_cliffs(r, Val(e, "Z"), num_sites, ridge_height)] :
                  e \in {Frame(h, [Z |-> z])}}
    IN  {IF x.o.ret.status = "raised"
         THEN [rng |-> x.o.rng, out |-> Return("raised", x.e, <<>>, Len(h))]
         ELSE [rng |-> x.o.rng,
               out |-> Return("ok", Alloc(x.e, "Z2", x.o.ret.Z), <<"Z2">>, Len(h))] :
            x \in s1}

\* assign_biomes, lines 66-90: biomes = np.zeros(...) is new and the only array
\* written.
AssignBiomesOn(h, z, slope, wetness, th) ==
    LET s1 == {[e |-> e,
                o |-> AssignBiomesCall(Val(e, "Z"), Val(e, "slope"),
                                       Val(e, "wetness"), th)] :
                  e \in {Frame(h, [Z |-> z, slope |-> slope, wetness |-> wetness])}}
    IN  {IF x.o.status = "raised" THEN Return("raised", x.e, <<>>, Len(h))
         ELSE Return("ok", Alloc(x.e, "biomes", x.o.biomes), <<"biomes">>, Len(h)) :
            x \in s1}

\* synthesize_biomes, lines 129-164, with the default thresholds (compute_slope,
\* lines 33-38; compute_wetness, lines 47-52; biome_colormap, lines 98-103)
SynthesizeBiomesOn(h, z, smoothing_sigma, coastal_width) ==
    LET s1 == {Alloc(e, "grad", Term("gradient", <<Val(e, "Z")>>)) :
                  e \in {Frame(h, [Z |-> z])}}
        s2 == {Alloc(e, "slope", Term("hypot", <<Val(e, "grad")>>)) : e \in s1}
        s3 == {Store(e, "slope", Term("normalize", <<Val(e, "slope")>>)) : e \in s2}
        s4 == {Alloc(e, "inv", Term("1-", <<Val(e, "Z")>>)) : e \in s3}
        s5 == {Alloc(e, "wetness",
                     Term("gaussian_filter", <<Val(e, "inv"), smoothing_sigma>>)) :
                  e \in s4}
        s6 == {Store(e, "wetness", Term("normalize", <<Val(e, "wetness")>>)) : e \in s5}
        s7 == {Alloc(e, "biomes",
                     Term("assign_biomes",
                          <<Val(e, "Z"), Val(e, "slope"), Val(e, "wetness")>>)) :
                  e \in s6}
        s8 == {Alloc(e, "rgb", Term("biome_colormap", <<Val(e, "biomes")>>)) : e \in s7}
        s9 == {IF coastal_width > 0
               THEN Store(e, "rgb", Term("coast", <<Val(e, "rgb"), Val(e, "biomes"),
                                                   coastal_width>>))
               ELSE e : e \in s8}
        s10 == {Alloc(e, "shade", Term("shade", <<Val(e, "Z")>>)) : e \in s9}
        s11 == {Alloc(e, "rgb", Term("clip", <<Val(e, "rgb"), Val(e, "shade")>>)) :
                   e \in s10}
        s12 == {Alloc(e, "blur_rgb", Term("gaussian_filter", <<Val(e, "rgb"), 0>>)) :
                   e \in s11}
        s13 == {Store(e, "rgb", Term("edge", <<Val(e, "rgb"), Val(e, "blur_rgb"),
                                               Val(e, "biomes")>>)) : e \in s12}
    IN  {Return("ok", e, <<"rgb", "biomes">>, Len(h)) : e \in s13}

\* fit_fbm_parameters, lines 26-36, on array z of heap h: Z = Z_real.astype(float)
\* is normalised in place; what is returned is a dict of numbers.
FitFbmParametersOn(h, z, scale, octaves) ==
    LET s1 == {AsType(e, "Z", "Z_real") : e \in {Frame(h, [Z_real |-> z])}}
        s2 == {Store(e, "Z", FSubScalar(Val(e, "Z"), FMin(Val(e, "Z")))) : e \in s1}
        s3 == {Store(e, "Z", FDivScalar(Val(e, "Z"), FMax(Val(e, "Z")))) : e \in s2}
        s4 == {[e |-> e,
                fit |-> fit_fbm_parameters(EmptyCache, h[z], scale, octaves)] :
                  e \in s3}
    IN  {Return(x.fit.ret.status, x.e, <<>>, Len(h)) : x \in s4}

----------------------------------------------------------------------------
(* The purity specification: a caller holding three arrays (a height field, a
   slope and a wetness) calls the operations on them, in any order *)

PureFields ==
    {RampField(3, 3), ConstField(3, 3, 2 * Unit),
     SpotField(3, <<1, 1>>, R1)}
CallerIds == 1..3
\* The caller's arrays, what the previous call returned being dropped.
CallerHeap == SubSeq(probe.heap, 1, 3)

InitPure ==
    /\ rng \in RngStates
    /\ op = "none"
    /\ args = NoArgs
    /\ ret = NoRet
    /\ \E Z \in PureFields,
          slope \in {ConstField(3, 3, R0), RampField(3, 3)},
          wetness \in {ConstField(3, 3, RHalf)} :
           probe = [kind |-> "heap", heap |-> <<Z, slope, wetness>>]
    /\ seen = NoRet

\* The call has returned out on arguments a.
Returns(name, a, out) ==
    /\ op' = name
    /\ args' = a
    /\ ret' = out.ret
    /\ probe' = [kind |-> "heap", heap |-> out.heap]
    /\ seen' = [status |-> "heap", heap |-> CallerHeap]

PureThermal ==
    /\ \E z \in CallerIds, iterations \in 0..1, talus \in {Rat(1, 100)} :
           \E out \in ThermalErosionOn(CallerHeap, z, iterations, talus) :
               Returns("thermal_erosion",
                       [kind |-> "thermal", inputs |-> {z}, iterations |-> iterations],
                       out)
    /\ UNCHANGED rng

PureHydraulic ==
    /\ \E z \in CallerIds, iterations \in 0..1 :
           \E out \in HydraulicErosionOn(CallerHeap, z, iterations,
                                         Rat(1, 100), Rat(1, 10)) :
               Returns("hydraulic_erosion",
                       [kind |-> "hydraulic", inputs |-> {z}, iterations |-> iterations],
                       out)
    /\ UNCHANGED rng

PureCliffs ==
    \E z \in CallerIds, num_sites \in {1, 3} :
        \E o \in VoronoiCliffsOn(CallerHeap, rng, z, num_sites, RHalf) :
            /\ rng' = o.rng
            /\ Returns("voronoi_cliffs",
                       [kind |-> "cliffs", inputs |-> {z}, num_sites |-> num_sites],
                       o.out)

PureAssign ==
    /\ \E z \in CallerIds, slope \in CallerIds, wetness \in CallerIds :
           \E out \in AssignBiomesOn(CallerHeap, z, slope, wetness, DefaultThresholds) :
           Returns("assign_biomes",
                   [kind |-> "assign", inputs |-> {z, slope, wetness},
                    Z |-> z, slope |-> slope, wetness |-> wetness],
                   out)
    /\ UNCHANGED rng

PureSynthesize ==
    /\ \E z \in CallerIds, coastal_width \in {0, 2} :
           \E out \in SynthesizeBiomesOn(CallerHeap, z, 3, coastal_width) :
           Returns("synthesize_biomes",
                   [kind |-> "synthesize", inputs |-> {z},
                    coastal_width |-> coastal_width],
                   out)
    /\ UNCHANGED rng

PureFit ==
    /\ \E z \in CallerIds :
           \E out \in FitFbmParametersOn(CallerHeap, z, None, 6) :
           Returns("fit_fbm_parameters",
                   [kind |-> "fit", inputs |-> {z}],
                   out)
    /\ UNCHANGED rng

NextPure ==
    PureThermal \/ PureHydraulic \/ PureCliffs \/ PureAssign \/ PureSynthesize
        \/ PureFit

SpecPure == InitPure /\ [][NextPure]_vars

\* C20: when one of the six operations has returned, every array passed to it
\* holds what it held before the call, and no array it returned is one of the
\* arrays the caller had.
C20_InputsUntouched ==
    op # "none" =>
        /\ \A z \in args.inputs : probe.heap[z] = seen.heap[z]
        /\ \A i \in DOMAIN ret.arrays : ret.arrays[i] \notin DOMAIN seen.heap

\* fit_fbm_parameters has normalised its own copy of a field that was not
\* normalised, and thermal erosion has returned a field other than its input.
C20_Witness ==
    \/ /\ op = "fit_fbm_parameters"
       /\ \E z \in args.inputs : NormalizeUnguarded(seen.heap[z]) # seen.heap[z]
    \/ /\ op = "thermal_erosion"
       /\ ret.status = "ok"
       /\ \E z \in args.inputs : probe.heap[ret.arrays[1]] # seen.heap[z]

----------------------------------------------------------------------------
(* stretch_goals.py: the multiplayer terraforming sandbox.  One call of
   handle_terraforming runs per connection, all of them on the array Z given
   to start_multiplayer_sandbox. *)

MaxClients == 2
MaxMsgs == 3

ClientIds == 1..MaxClients
\* The heightmap of the sandbox is one row of two cells.
SandboxCells == Cells(1, 2)

\* Lines 164-166 with the defaults bump_radius=5, bump_height=0.1: the bump of
\* a message {x, y} at cell c = <<row, column>>
Bump(x, y, c) ==
    LET dist2 == (c[2] - x) * (c[2] - x) + (c[1] - y) * (c[1] - y)
    IN  RMul(Rat(1, 10), ExpNeg(Rat(dist2, 2 * 5 * 5)))

\* Z += bump
AddBump(Z, x, y) ==
    Field(Z.n, Z.m, [c \in Cells(Z.n, Z.m) |-> RAdd(Z.v[c], Bump(x, y, c))])
\* np.clip(Z, 0, 1): a new array
ClipField(Z) == Field(Z.n, Z.m, [c \in Cells(Z.n, Z.m) |-> Clip01(Z.v[c])])

InitSandbox ==
    /\ rng = 0
    /\ op = "start_multiplayer_sandbox"
    /\ args = NoArgs
    /\ ret = NoRet
    /\ \E Z \in {ConstField(1, 2, R0), ConstField(1, 2, Rat(19, 20))} :
           probe = [kind |-> "sandbox", shared |-> Z, handlers |-> <<>>, handled |-> 0]
    /\ seen = NoRet

Connected == {c \in ClientIds : probe.handlers[c].open}

\* The state of the sandbox with the handlers hs and the shared array S
Sandbox(S, hs, k) == [kind |-> "sandbox", shared |-> S, handlers |-> hs, handled |-> k]

\* A server accepting connections: no connection is open yet.
Serve ==
    /\ op = "start_multiplayer_sandbox"
    /\ op' = "serve"
    /\ probe' = Sandbox(probe.shared,
                        [c \in ClientIds |-> [open |-> FALSE, clients |-> {}, own |-> None]],
                        0)
    /\ UNCHANGED <<rng, args, ret, seen>>

\* Lines 159-160: a client connects and its handler starts with clients = set()
\* of its own, holding its websocket only; its Z is the shared array.
Connect ==
    /\ op # "start_multiplayer_sandbox"
    /\ \E c \in ClientIds \ Connected :
           /\ probe' = Sandbox(probe.shared,
                               [probe.handlers EXCEPT
                                    ![c] = [open |-> TRUE, clients |-> {c}, own |-> None]],
                               probe.handled)
           /\ args' = [kind |-> "connect", client |-> c]
    /\ op' = "connect"
    /\ ret' = NoRet
    /\ UNCHANGED <<rng, seen>>

\* Lines 162-173: the handler of client c receives {x, y}.  Z += bump writes to
\* the array its Z names (the shared array until the first message, its own
\* clipped copy afterwards), Z = np.clip(Z, 0, 1) rebinds Z to a new array, and
\* the payload goes to the websockets of the handler's clients.
HandleMessage ==
    /\ op # "start_multiplayer_sandbox"
    /\ probe.handled < MaxMsgs
    /\ \E c \in Connected, x \in 0..1, y \in {0} :
           LET h == probe.handlers[c]
               bumped == AddBump(IF h.own = None THEN probe.shared ELSE h.own[1], x, y)
               Z == ClipField(bumped)
           IN  /\ probe' = Sandbox(IF h.own = None THEN bumped ELSE probe.shared,
                                   [probe.handlers EXCEPT
                                        ![c] = [open |-> TRUE, clients |-> h.clients,
                                                own |-> Some(Z)]],
                                   probe.handled + 1)
               /\ args' = [kind |-> "message", client |-> c, x |-> x, y |-> y]
               /\ ret' = [status |-> "ok", to |-> h.clients, heightmap |-> Z]
               /\ seen' = [status |-> "connected", clients |-> Connected]
    /\ op' = "message"
    /\ UNCHANGED rng

\* Lines 174-175: the connection of client c closes; finally: clients.remove
Disconnect ==
    /\ op # "start_multiplayer_sandbox"
    /\ \E c \in Connected :
           /\ probe' = Sandbox(probe.shared,
                               [probe.handlers EXCEPT
                                    ![c] = [open |-> FALSE, clients |-> {}, own |-> None]],
                               probe.handled)
           /\ args' = [kind |-> "disconnect", client |-> c]
    /\ op' = "disconnect"
    /\ ret' = NoRet
    /\ UNCHANGED <<rng, seen>>

NextSandbox == Serve \/ Connect \/ HandleMessage \/ Disconnect

SpecSandbox == InitSandbox /\ [][NextSandbox]_vars

\* C21 (as claimed): when a message {x, y} of a client has been handled, the
\* updated heightmap has been sent to every client connected at that time.
C21_BroadcastToAll ==
    op = "message" => ret.to = seen.clients

----------------------------------------------------------------------------
(* _thermal_core step by step: the prange workers of the rows of one pass run
   concurrently, and delta[...] -= tr / += tr is a load followed by a store *)

\* A 4x3 field: the two interior cells hold a and b, the edge cell above them e.
ScanField(a, b, e) ==
    Field(4, 3, [c \in Cells(4, 3) |->
                    IF c = <<1, 1>> THEN a ELSE IF c = <<2, 1>> THEN b
                    ELSE IF c = <<0, 1>> THEN e ELSE R0])
ScanFields ==
    {ScanField(a, b, e) : a \in {R0, RHalf, R1}, b \in {R0, RHalf, R1}, e \in {R0, R1}}

\* Lines 22-27: the next cell and direction, from column j and direction d on,
\* at which the worker of row r finds slope > talus_angle; j = m - 1 when none.
RECURSIVE Seek(_, _, _, _, _)
Seek(Z, r, j, d, talus) ==
    IF j > Z.m - 2 THEN [j |-> j, d |-> 1]
    ELSE IF d > 4 THEN Seek(Z, r, j + 1, 1, talus)
    ELSE IF Transfer(Z, <<r, j>>, d, talus) # R0 THEN [j |-> j, d |-> d]
    ELSE Seek(Z, r, j, d + 1, talus)

\* A worker about to load delta[i, j] at the visit at (j, d)
WorkerAt(pos) == [j |-> pos.j, d |-> pos.d, phase |-> "src_load", tmp |-> R0]
\* Lines 19-21: the pass begins with delta = np.zeros_like(Z_out)
StartPass(Z, talus, iter, iterations) ==
    [kind |-> "scan", Z |-> Z, talus |-> talus, iter |-> iter, iterations |-> iterations,
     delta |-> [c \in DOMAIN Z.v |-> R0],
     workers |-> [r \in InteriorRows(Z) |-> WorkerAt(Seek(Z, r, 1, 1, talus))],
     moved |-> {}, phase |-> "scan"]

InitScan ==
    /\ rng = 0
    /\ op = "thermal_core"
    /\ \E Z \in ScanFields, iterations \in 1..MaxIters :
           /\ args = [kind |-> "thermal_core", Z |-> Z, iterations |-> iterations,
                      talus_angle |-> Rat(1, 100)]
           /\ probe = StartPass(Z, Rat(1, 100), 0, iterations)
    /\ ret = Pending
    /\ seen = NoRet

Working(w) == w.j <= probe.Z.m - 2

\* Line 31: what is stored to delta[i+di, j+dj], tmp being what was loaded
Received(tmp, tr) == RAdd(tmp, tr)

\* Lines 30-31: one load or one store of the worker of row r
WorkerStep ==
    /\ probe.phase = "scan"
    /\ \E r \in DOMAIN probe.workers :
           LET w == probe.workers[r]
               c == <<r, w.j>>
               nb == Step(c, w.d)
               tr == Transfer(probe.Z, c, w.d, probe.talus)
               w2 == IF w.phase = "src_load"
                     THEN [j |-> w.j, d |-> w.d, phase |-> "src_store",
                           tmp |-> probe.delta[c]]
                     ELSE IF w.phase = "src_store"
                     THEN [j |-> w.j, d |-> w.d, phase |-> "dst_load", tmp |-> R0]
                     ELSE IF w.phase = "dst_load"
                     THEN [j |-> w.j, d |-> w.d, phase |-> "dst_store",
                           tmp |-> probe.delta[nb]]
                     ELSE WorkerAt(Seek(probe.Z, r, w.j, w.d + 1, probe.talus))
               delta2 == IF w.phase = "src_store"
                         THEN SetCell(probe.delta, c, RSub(w.tmp, tr))
                         ELSE IF w.phase = "dst_store"
                         THEN SetCell(probe.delta, nb, Received(w.tmp, tr))
                         ELSE probe.delta
           IN  /\ Working(w)
               /\ probe' = [kind |-> "scan", Z |-> probe.Z, talus |-> probe.talus,
                            iter |-> probe.iter, iterations |-> probe.iterations,
                            delta |-> delta2,
                            workers |-> [k \in DOMAIN probe.workers |->
                                            IF k = r THEN w2 ELSE probe.workers[k]],
                            moved |-> IF w.phase = "dst_store"
                                      THEN probe.moved \cup {<<c, nb, tr>>}
                                      ELSE probe.moved,
                            phase |-> "scan"]
    /\ op' = "worker"
    /\ UNCHANGED <<rng, args, ret, seen>>

\* Line 32, every worker having finished its row: Z_out += delta; then the next
\* pass, or line 33: return Z_out
EndPass ==
    /\ probe.phase = "scan"
    /\ \A r \in DOMAIN probe.workers : ~Working(probe.workers[r])
    /\ \E Z2 \in {ApplyDelta(probe.Z, probe.delta)} :
           /\ seen' = [status |-> "pass", Z |-> probe.Z, delta |-> probe.delta,
                       moved |-> probe.moved]
           /\ IF probe.iter + 1 < probe.iterations
              THEN /\ probe' = StartPass(Z2, probe.talus, probe.iter + 1, probe.iterations)
                   /\ ret' = ret
              ELSE /\ probe' = [kind |-> "scan", Z |-> Z2, talus |-> probe.talus,
                                iter |-> probe.iter + 1, iterations |-> probe.iterations,
                                delta |-> probe.delta, workers |-> probe.workers,
                                moved |-> probe.moved, phase |-> "returned"]
                   /\ ret' = Ok(Z2)
    /\ op' = "end_pass"
    /\ UNCHANGED <<rng, args>>

NextScan == WorkerStep \/ EndPass

SpecScan == InitScan /\ [][NextScan]_vars

\* The pass of the state is over: every worker has finished its row and
\* Z_out += delta has not run yet.
PassScanned ==
    /\ probe.phase = "scan"
    /\ \A r \in DOMAIN probe.workers : ~Working(probe.workers[r])

\* What the transfers made (moved) add up to at cell c
NetMoved(Z, talus, moved, c) ==
    LET in(d) == IF /\ Back(c, d) \in DOMAIN Z.v
                    /\ <<Back(c, d), c, Transfer(Z, Back(c, d), d, talus)>> \in moved
                 THEN Transfer(Z, Back(c, d), d, talus) ELSE R0
        out(d) == IF /\ Step(c, d) \in DOMAIN Z.v
                     /\ <<c, Step(c, d), Transfer(Z, c, d, talus)>> \in moved
                  THEN Transfer(Z, c, d, talus) ELSE R0
    IN  RSub(Sum4([d \in 1..4 |-> in(d)]), Sum4([d \in 1..4 |-> out(d)]))

\* The sum of the cells of a grid
SumCells(v, n, m) ==
    SumOver([k \in 1..(n * m) |-> <<(k - 1) \div m, (k - 1) % m>>], v)

\* C22 (as claimed): the field after a pass is the field of the Jacobi update of
\* the field before it, whatever the order in which the workers visited the
\* cells and directions.
C22_JacobiOrderFree ==
    op = "end_pass" => probe.Z = ApplyDelta(seen.Z, Delta(seen.Z, probe.talus, {}))

\* C23 (as claimed): the concurrent scan of a pass loses no delta contribution:
\* when the rows have been scanned, delta holds at every cell the sum of the
\* transfers made into it less the transfers made out of it.
C23_NoContributionLost ==
    PassScanned =>
        \A c \in DOMAIN probe.delta :
            probe.delta[c] = NetMoved(probe.Z, probe.talus, probe.moved, c)

\* What the claim has cell c hand to its neighbour in direction d
ClaimedAmount(Z, c, d, talus) ==
    RMul(RHalf, RSub(RSub(Z.v[c], Z.v[Step(c, d)]), talus))

\* The transfers of a pass as claimed: from every cell of the grid, interior,
\* edge or corner, to each of its existing neighbours that lies lower by more
\* than talus, half the excess.
ClaimedTransfers(Z, talus) ==
    {<<x[1], Step(x[1], x[2]), ClaimedAmount(Z, x[1], x[2], talus)>> :
        x \in {y \in (DOMAIN Z.v) \X (1..4) :
                  /\ Step(y[1], y[2]) \in DOMAIN Z.v
                  /\ RGt(RSub(Z.v[y[1]], Z.v[Step(y[1], y[2])]), talus)
                  /\ ClaimedAmount(Z, y[1], y[2], talus) # R0}}

\* C24 (as claimed): the transfers made in a pass are exactly the claimed ones.
C24_TransferRule ==
    op = "end_pass" => seen.moved = ClaimedTransfers(seen.Z, probe.talus)

\* C30 (as claimed): the delta buffer of every pass sums to zero, and the field
\* returned holds as much material as the field given.
C30_MaterialConserved ==
    /\ op = "end_pass" => SumCells(seen.delta, seen.Z.n, seen.Z.m) = R0
    /\ ret.status = "ok" =>
           SumCells(ret.Z.v, ret.Z.n, ret.Z.m) = SumCells(args.Z.v, args.Z.n, args.Z.m)

----------------------------------------------------------------------------
(* _hydro_core, lines 69-90: the step of one cell *)

\* The 3x3 grids of a step at the centre cell: the centre at height hc, its
\* neighbour in direction d at height hs[d], the corners at 0.
FlowField(hc, hs) ==
    Field(3, 3, [c \in Cells(3, 3) |->
                    IF c = <<1, 1>> THEN hc
                    ELSE IF \E d \in 1..4 : Step(<<1, 1>>, d) = c
                    THEN hs[CHOOSE d \in 1..4 : Step(<<1, 1>>, d) = c]
                    ELSE R0])
FlowInputs ==
    [kind : {"hydro_cell"},
     Z : {FlowField(hc, hs) : hc \in {RHalf, R1}, hs \in [1..4 -> {R0, RHalf, R1}]},
     water : {Rat(1, 100), RHalf},
     solubility : {Rat(1, 10)}]

InitFlow ==
    /\ rng = 0
    /\ op = "hydro_cell"
    /\ args \in FlowInputs
    /\ ret = Pending
    /\ probe = [kind |-> "grids", Z |-> args.Z.v,
                W |-> [c \in Cells(3, 3) |-> args.water],
                S |-> [c \in Cells(3, 3) |-> R0]]
    /\ seen = NoRet

\* The body of the loops for the cell i = 1, j = 1
HydroCellStep ==
    /\ op = "hydro_cell"
    /\ ret = Pending
    /\ \E st \in {HydroCell([Z |-> probe.Z, W |-> probe.W, S |-> probe.S],
                            <<1, 1>>, args.solubility)} :
           /\ probe' = [kind |-> "grids", Z |-> st.Z, W |-> st.W, S |-> st.S]
           /\ seen' = [status |-> "before", Z |-> probe.Z, W |-> probe.W, S |-> probe.S]
    /\ ret' = [status |-> "ok"]
    /\ UNCHANGED <<rng, op, args>>

NextFlow == HydroCellStep

SpecFlow == InitFlow /\ [][NextFlow]_vars

\* The drop of height+water from the centre to its neighbour in direction d,
\* before the step
DropTo(d) ==
    RSub(RAdd(seen.Z[<<1, 1>>], seen.W[<<1, 1>>]),
         RAdd(seen.Z[Step(<<1, 1>>, d)], seen.W[Step(<<1, 1>>, d)]))
LowerDirs == {d \in 1..4 : RGt(DropTo(d), R0)}
\* w * d_i / D
ClaimedFlow(d) ==
    RMul(seen.W[<<1, 1>>],
         RDiv(DropTo(d), SumOver(SelectSeq(<<1, 2, 3, 4>>, LAMBDA k : k \in LowerDirs),
                                 [k \in 1..4 |-> DropTo(k)])))

\* C25 (as claimed): the cell's step has given each lower neighbour the share
\* w * d_i / D of the water w the cell held, and has moved solubility times that
\* flow from the height of the cell to the sediment of the neighbour.
C25_ProportionalFlow ==
    ret.status = "ok" =>
        /\ \A d \in LowerDirs :
               /\ probe.W[Step(<<1, 1>>, d)]
                      = RAdd(seen.W[Step(<<1, 1>>, d)], ClaimedFlow(d))
               /\ probe.S[Step(<<1, 1>>, d)]
                      = RAdd(seen.S[Step(<<1, 1>>, d)],
                             RMul(args.solubility, ClaimedFlow(d)))
        /\ probe.Z[<<1, 1>>]
               = RSub(seen.Z[<<1, 1>>],
                      SumOver(SelectSeq(<<1, 2, 3, 4>>, LAMBDA k : k \in LowerDirs),
                              [k \in 1..4 |-> RMul(args.solubility, ClaimedFlow(k))]))

----------------------------------------------------------------------------
(* _hydro_core pass by pass: the prange workers of the rows of a pass run in no
   fixed order, each on the grids as the others have left them *)

HydroCoreInputs ==
    [kind : {"hydro_core"}, Z : ScanFields, iterations : 0..MaxIters,
     params : HydroParams]

\* Lines 61-64: Z_out, W and S are copies of the arguments (water and sediment
\* are zero grids, lines 106-107).
InitHydro ==
    /\ rng = 0
    /\ op = "hydro_core"
    /\ args \in HydroCoreInputs
    /\ ret = Pending
    /\ probe = [kind |-> "hydro",
                st |-> [Z |-> args.Z.v, W |-> [c \in DOMAIN args.Z.v |-> R0],
                        S |-> [c \in DOMAIN args.Z.v |-> R0]],
                pending |-> {}, iter |-> 0]
    /\ seen = NoRet

\* Lines 65-66: the next pass begins with W += rain_amount
BeginPass ==
    /\ ret = Pending
    /\ probe.pending = {}
    /\ probe.iter < args.iterations
    /\ probe' = [kind |-> "hydro",
                 st |-> [Z |-> probe.st.Z,
                         W |-> [c \in DOMAIN probe.st.W |->
                                   RAdd(probe.st.W[c], args.params[1])],
                         S |-> probe.st.S],
                 pending |-> InteriorRows(args.Z), iter |-> probe.iter + 1]
    /\ op' = "begin_pass"
    /\ UNCHANGED <<rng, args, ret, seen>>

\* Lines 67-90: the worker of one of the rows not scanned yet scans its row.
RowWorker ==
    /\ \E r \in probe.pending :
           \E st \in {HydroRow(probe.st, r, args.Z.m, args.params[2])} :
               probe' = [kind |-> "hydro", st |-> st,
                         pending |-> probe.pending \ {r}, iter |-> probe.iter]
    /\ op' = "row"
    /\ UNCHANGED <<rng, args, ret, seen>>

\* Line 91: return Z_out
ReturnHydro ==
    /\ ret = Pending
    /\ probe.pending = {}
    /\ probe.iter >= args.iterations
    /\ ret' = Ok(Field(args.Z.n, args.Z.m, probe.st.Z))
    /\ op' = "return"
    /\ UNCHANGED <<rng, args, probe, seen>>

NextHydro == BeginPass \/ RowWorker \/ ReturnHydro

SpecHydro == InitHydro /\ [][NextHydro]_vars

\* The call goes on until it returns: a pass that can begin does, a row that
\* is left to scan is scanned by its worker, and the core returns when it can.
SpecHydroLive ==
    /\ SpecHydro
    /\ WF_vars(BeginPass)
    /\ WF_vars(ReturnHydro)
    /\ ([]<>(probe.pending = {}) \/ []<><<op' = "row">>_vars)

\* The grids after the given number of passes of the sequential forward scan,
\* rows 1, 2, ... one after the other
RECURSIVE ForwardScan(_, _, _, _, _, _)
ForwardScan(st, n, m, iterations, rain_amount, solubility) ==
    IF iterations <= 0 THEN st
    ELSE ForwardScan(HydroPass(st, [k \in 1..(n - 2) |-> k], m, rain_amount, solubility),
                     n, m, iterations - 1, rain_amount, solubility)

\* C26 (as claimed): whatever the interleaving of the row workers, the field
\* returned is that of the sequential forward scan.
C26_SerializedRows ==
    ret.status = "ok" =>
        ret.Z.v = ForwardScan([Z |-> args.Z.v, W |-> [c \in DOMAIN args.Z.v |-> R0],
                               S |-> [c \in DOMAIN args.Z.v |-> R0]],
                              args.Z.n, args.Z.m, args.iterations,
                              args.params[1], args.params[2]).Z

\* C27 (as claimed): once material has been removed from the height of a cell,
\* the height of some cell is eventually raised.
C27_SedimentDeposited ==
    (\E c \in DOMAIN probe.st.Z : probe.st.Z[c] < args.Z.v[c])
        ~> (\E c \in DOMAIN probe.st.Z : probe.st.Z[c] > args.Z.v[c])

-----------------------------------------------------------------------------
(* DiamondSquareGenerator.generate, cell by cell (heightmap_generators.py,
   lines 37-91).  probe holds the locals of the call: n, grid, step_size,
   scale, the cells the running step has still to write (todo), the number of
   passes completed (pass), the number of the running phase (phase_no: 0 for
   the corners, then one per diamond step and one per square step), and for
   every cell the number of times it was written (count) and the phase that
   wrote it last (stamp, -1 before any write).  cell is the cell written last
   and reads the set of cells that write averaged. *)

DSSizes == {1, 2, 3, MaxSize, 2 * MaxSize + 1}
DSInputs == [size : DSSizes, roughness : {R1, RHalf}, rng : {0, 3}]

\* Lines 62-66: the four cells the diamond step averages for the centre c
DiamondReads(c, half) ==
    {<<c[1] - half, c[2] - half>>, <<c[1] + half, c[2] - half>>,
     <<c[1] - half, c[2] + half>>, <<c[1] + half, c[2] + half>>}

\* Lines 73-81: the cells the square step averages for the cell c
SquareReads(c, half, n) ==
    (IF c[1] - half >= 0 THEN {<<c[1] - half, c[2]>>} ELSE {})
        \cup (IF c[1] + half < n THEN {<<c[1] + half, c[2]>>} ELSE {})
        \cup (IF c[2] - half >= 0 THEN {<<c[1], c[2] - half>>} ELSE {})
        \cup (IF c[2] + half < n THEN {<<c[1], c[2] + half>>} ELSE {})

\* Mutant: the amplitude is multiplied by itself, so the decay follows the roughness.
Mut_NextScale(scale) == RMul(scale, scale)

\* Line 86: scale *= 0.5
NextScale(scale) == RMul(scale, RHalf)

InitDS ==
    /\ op = "generate"
    /\ args \in DSInputs
    /\ rng = args.rng
    /\ ret = Pending
    /\ probe = [kind |-> "ds", at |-> "call"]
    /\ seen = NoRet

\* One write of the corner initialisation: count and stamp of the cell c
Written(count, stamp, c, phase_no) ==
    [count |-> SetCell(count, c, count[c] + 1), stamp |-> SetCell(stamp, c, phase_no)]

\* Lines 39-54: the side of the grid, the zero grid, the four corners, and the
\* first step size and amplitude.
Corners ==
    /\ probe.at = "call"
    /\ \E n \in {DSGridSide(args.size)} :
       \E st \in {DSCorners(n, rng)} :
       \E w1 \in {Written([c \in Cells(n, n) |-> 0], [c \in Cells(n, n) |-> -1],
                          <<0, 0>>, 0)} :
       \E w2 \in {Written(w1.count, w1.stamp, <<0, n - 1>>, 0)} :
       \E w3 \in {Written(w2.count, w2.stamp, <<n - 1, 0>>, 0)} :
       \E w4 \in {Written(w3.count, w3.stamp, <<n - 1, n - 1>>, 0)} :
           /\ probe' = [kind |-> "ds", at |-> "while", n |-> n, grid |-> st.grid,
                        step_size |-> n - 1, scale |-> args.roughness,
                        todo |-> <<>>, pass |-> 0, phase_no |-> 0,
                        count |-> w4.count, stamp |-> w4.stamp,
                        cell |-> <<n - 1, n - 1>>, reads |-> {}]
           /\ rng' = st.rng
    /\ op' = "corners"
    /\ UNCHANGED <<args, ret, seen>>

\* Lines 56-60: the loop test holds; the diamond step begins
DiamondStep ==
    /\ probe.at = "while"
    /\ probe.step_size > 1
    /\ probe' = [probe EXCEPT !.at = "diamond",
                              !.todo = DiamondCells(probe.n, probe.step_size),
                              !.phase_no = probe.phase_no + 1,
                              !.reads = {}]
    /\ op' = "diamond_step"
    /\ UNCHANGED <<rng, args, ret, seen>>

\* Lines 62-68 and 73-83: the locals and np.random after the running step has
\* written its next cell
WriteCell(diamond) ==
    LET c == Head(probe.todo)
        half == probe.step_size \div 2
    IN  CHOOSE r \in {[probe |-> [probe EXCEPT !.grid = st.grid,
                                               !.todo = Tail(probe.todo),
                                               !.count = w.count,
                                               !.stamp = w.stamp,
                                               !.cell = c,
                                               !.reads = IF diamond
                                                         THEN DiamondReads(c, half)
                                                         ELSE SquareReads(c, half, probe.n)],
                       rng |-> st.rng] :
                          st \in {DSCell([grid |-> probe.grid, rng |-> rng], c, diamond,
                                         half, probe.n, probe.scale)},
                          w \in {Written(probe.count, probe.stamp, c, probe.phase_no)}} : TRUE

\* Lines 60-68: the diamond step writes its next centre
DiamondCell ==
    /\ probe.at = "diamond"
    /\ probe.todo # <<>>
    /\ \E r \in {WriteCell(TRUE)} : probe' = r.probe /\ rng' = r.rng
    /\ op' = "diamond_cell"
    /\ UNCHANGED <<args, ret, seen>>

\* Lines 71-83: the square step writes its next cell
SquareCell ==
    /\ probe.at = "square"
    /\ probe.todo # <<>>
    /\ \E r \in {WriteCell(FALSE)} : probe' = r.probe /\ rng' = r.rng
    /\ op' = "square_cell"
    /\ UNCHANGED <<args, ret, seen>>

\* Lines 70-72: the diamond step is over; the square step begins
SquareStep ==
    /\ probe.at = "diamond"
    /\ probe.todo = <<>>
    /\ probe' = [probe EXCEPT !.at = "square",
                              !.todo = SquareCells(probe.n, probe.step_size),
                              !.phase_no = probe.phase_no + 1,
                              !.reads = {}]
    /\ op' = "square_step"
    /\ UNCHANGED <<rng, args, ret, seen>>

\* Lines 85-86: step_size = half; scale *= 0.5
HalveStep ==
    /\ probe.at = "square"
    /\ probe.todo = <<>>
    /\ probe' = [probe EXCEPT !.at = "while",
                              !.step_size = probe.step_size \div 2,
                              !.scale = NextScale(probe.scale),
                              !.pass = probe.pass + 1,
                              !.reads = {}]
    /\ op' = "halve"
    /\ UNCHANGED <<rng, args, ret, seen>>

\* Lines 56 and 88-91: the loop test fails; the grid is normalized and returned
ReturnGrid ==
    /\ probe.at = "while"
    /\ probe.step_size <= 1
    /\ ret = Pending
    /\ ret' = [status |-> "ok",
               Z |-> NormalizeUnguarded([n |-> probe.n, m |-> probe.n, v |-> probe.grid])]
    /\ probe' = [probe EXCEPT !.at = "return"]
    /\ op' = "return"
    /\ UNCHANGED <<rng, args, seen>>

NextDS ==
    \/ Corners
    \/ DiamondStep
    \/ DiamondCell
    \/ SquareStep
    \/ SquareCell
    \/ HalveStep
    \/ ReturnGrid

SpecDS == InitDS /\ [][NextDS]_vars

\* The side n is 2^k + 1, and k is its exponent.
DSExponent(n) == CeilLog2(n - 1)
DSSideOk == probe.kind = "ds" /\ probe.at # "call" /\ probe.n = Pow2(DSExponent(probe.n)) + 1

\* C28: on a grid of side n = 2^k + 1 the loop ends after exactly k passes with
\* step size 1; in pass p (0-based) the step size is (n-1)/2^p and both the
\* diamond and the square step perturb with amplitude roughness * 2^-p.
C28_GeometricDecay ==
    DSSideOk =>
        /\ probe.at \in {"diamond", "square"} =>
               /\ probe.pass < DSExponent(probe.n)
               /\ probe.step_size * Pow2(probe.pass) = probe.n - 1
               /\ RMul(probe.scale, Rat(Pow2(probe.pass), 1)) = args.roughness
        /\ probe.at = "return" =>
               /\ probe.pass = DSExponent(probe.n)
               /\ probe.step_size = 1

C28_Witness ==
    /\ DSSideOk
    /\ probe.at = "return"
    /\ probe.pass >= 2
    /\ args.roughness = RHalf

DSCornerCells(n) == {<<0, 0>>, <<0, n - 1>>, <<n - 1, 0>>, <<n - 1, n - 1>>}
OnEdge(c, n) == c[1] \in {0, n - 1} \/ c[2] \in {0, n - 1}

\* C29: on a grid of side 2^k + 1 every cell is written exactly once (the
\* corners at initialisation, any other cell by one diamond or square step),
\* and every cell a step averages is in the grid and was written in an earlier
\* phase: four cells for a diamond centre, four for a square cell inside the
\* grid and three for one on its edge.
C29_AssignedOnce ==
    DSSideOk =>
        /\ \A c \in DOMAIN probe.count :
               /\ probe.count[c] <= 1
               /\ probe.stamp[c] = 0 <=> c \in DSCornerCells(probe.n)
               /\ probe.at = "return" => probe.count[c] = 1
        /\ op \in {"diamond_cell", "square_cell"} =>
               /\ probe.reads \subseteq DOMAIN probe.grid
               /\ \A r \in probe.reads :
                      probe.stamp[r] >= 0 /\ probe.stamp[r] < probe.phase_no
               /\ Cardinality(probe.reads) =
                      IF op = "square_cell" /\ OnEdge(probe.cell, probe.n) THEN 3 ELSE 4

C29_Witness ==
    /\ DSSideOk
    /\ probe.at = "return"
    /\ probe.n >= 5
    /\ \A c \in DOMAIN probe.count : probe.count[c] = 1

============================================================================
